---- MODULE Spec2Model ----
(***************************************************************************)
(* Model of the AI booking agent.                                          *)
(*                                                                         *)
(*   SpecAvail : the calendar services of                                  *)
(*               backend/app/services/calendar_service.py                  *)
(*   Spec      : BookingAgent of backend/app/services/agent_service.py,    *)
(*               one session driven through process_message                *)
(*   SpecLLM   : BookingAgent of                                           *)
(*               booking-agent/backend/app/services/agent_service.py       *)
(*   SpecConc  : the send_message endpoint of backend/app/main.py on the   *)
(*               server's event loop                                       *)
(*                                                                         *)
(* Time is counted in minutes; minute 0 is 2024-01-15T00:00:00Z, the day   *)
(* of the first entries of MockCalendarService.mock_busy_times.            *)
(***************************************************************************)
EXTENDS Integers, Sequences, FiniteSets, TLC

VARIABLES
    \* ---- calendar services (SpecAvail)
    calendar_mode,        \* "mock": CalendarService.service is None; "real"
    busy_times,           \* the calendar's events, in the provider's order
    events_created,       \* number of create_event calls so far
    avail,                \* the last availability query and what it returned
    booked,               \* the slots a booking reported as mock_booked
    \* ---- BookingAgent of backend/app (Spec)
    stage,                \* ConversationState.stage
    current_booking_data, \* ConversationState.current_booking_data
    messages,             \* ConversationState.messages
    async_cache,          \* BookingAgent.async_cache.cache
    response,             \* what the last process_message call returned
    outbox,               \* recipients of the confirmation emails sent
    booking_calls,        \* calendar create_event / book_slot calls made
    turns,                \* process_message calls so far
    failed_calls,         \* calls among them whose async path raised
    \* ---- the API of backend/app/main.py (SpecConc)
    requests,             \* the send_message requests: position and message
    event_loop,           \* the request the event loop is running, 0: none
    conversations,        \* whether _conversations holds the session
    session_file,         \* history length in sessions/<id>.json, -1: no file
    last_message_time,    \* timestamp of the session's last message
    \* ---- BookingAgent of booking-agent/backend/app (SpecLLM)
    llm_calendar,         \* BookingAgent.calendar_service: "service" or "none"
    llm_stage,            \* ConversationState.stage
    llm_booking_data,     \* ConversationState.current_booking_data
    llm_messages,         \* ConversationState.messages
    llm_reply,            \* the dict the last process_message call returned
    llm_create_calls,     \* calendar_service.create_event calls made
    llm_booking_result,   \* what _create_booking returned in the last turn
    llm_turns,            \* process_message calls so far
    \* ---- a second session served by the same BookingAgent (SpecIso)
    peer,                 \* stage, draft and history of session "B"
    last_session,         \* the session of the last process_message call
    \* ---- an AsyncTTLCache on its own (SpecCache)
    ttl_cache,            \* its entries and ttl, the clock, the last call
    \* ---- llm_service.py of booking-agent (SpecBreaker, SpecGenerate)
    breaker,              \* an AdvancedCircuitBreaker, the clock, its calls
    generation            \* LLMService: its response cache and the call running

availVars == <<calendar_mode, busy_times, events_created, avail, booked>>

agentVars == <<stage, current_booking_data, messages, async_cache, response,
               outbox, booking_calls, turns, failed_calls>>

apiVars == <<requests, event_loop, conversations, session_file,
             last_message_time>>

llmVars == <<llm_calendar, llm_stage, llm_booking_data, llm_messages,
             llm_reply, llm_create_calls, llm_booking_result, llm_turns>>

isoVars == <<peer, last_session>>

cacheVars == <<ttl_cache>>

svcVars == <<breaker, generation>>

vars == <<availVars, agentVars, apiVars, llmVars, isoVars, cacheVars, svcVars>>

\* ------------------------------------------------------------------------
\* Bounds of the model
\* ------------------------------------------------------------------------
MaxCreated == 1
MaxTurns == 5
MaxFailedCalls == 1
MaxRequests == 2
MaxSessionTurns == 3
MaxClock == 3

\* ------------------------------------------------------------------------
\* Time
\* ------------------------------------------------------------------------
MinutesPerHour == 60
MinutesPerDay == 1440

At(day, hour, minute) == day * MinutesPerDay + hour * MinutesPerHour + minute

\* datetime.hour and datetime.minute of a timestamp
HourOf(t) == (t % MinutesPerDay) \div MinutesPerHour
MinuteOf(t) == t % MinutesPerHour

Interval(s, e) == [start |-> s, end |-> e]
Event(s, e, allday) == [start |-> s, end |-> e, allday |-> allday]

\* MockCalendarService.__init__: mock_busy_times
MockBusyInit ==
    << Event(At(0, 9, 0), At(0, 10, 0), FALSE),
       Event(At(0, 14, 0), At(0, 15, 30), FALSE),
       Event(At(1, 11, 0), At(1, 12, 0), FALSE) >>

\* the stable sort of busy periods by start (sorted(..., key=start))
RECURSIVE InsertByStart(_, _)
InsertByStart(sorted, b) ==
    IF sorted = << >> THEN << b >>
    ELSE IF b.start < Head(sorted).start THEN << b >> \o sorted
    ELSE << Head(sorted) >> \o InsertByStart(Tail(sorted), b)

unsorted_busy_periods(seq) == seq

RECURSIVE SortByStart(_)
SortByStart(seq) ==
    IF seq = << >> THEN << >>
    ELSE InsertByStart(SortByStart(SubSeq(seq, 1, Len(seq) - 1)), seq[Len(seq)])

Overlaps(s, e, b) == s < b.end /\ e > b.start

\* MockCalendarService.get_free_slots: the scan over all busy times
IsFreeFullScan(s, e, busy) ==
    \A i \in 1..Len(busy) : ~Overlaps(s, e, busy[i])

scan_with_closed_intervals(s, e, sorted, i) ==
    \A k \in 1..Len(sorted) : ~(s <= sorted[k].end /\ e >= sorted[k].start)

\* CalendarService.get_free_slots: the scan over the sorted busy periods
\* that stops at the first period starting at or after the slot's end
RECURSIVE IsFreeSortedScan(_, _, _, _)
IsFreeSortedScan(s, e, sorted, i) ==
    IF i > Len(sorted) THEN TRUE
    ELSE IF e <= sorted[i].start THEN TRUE
    ELSE IF Overlaps(s, e, sorted[i]) THEN FALSE
    ELSE IsFreeSortedScan(s, e, sorted, i + 1)

SlotStepMinutes == 15
SLOT_INTERVAL_MINUTES == 30
WORK_START_HOUR == 9
WORK_END_HOUR == 17

\* while current + duration <= end_dt: ...; current += 15 minutes
RECURSIVE WalkMock(_, _, _, _)
WalkMock(current, end_dt, duration, busy) ==
    IF current + duration <= end_dt
    THEN (IF IsFreeFullScan(current, current + duration, busy)
          THEN << Interval(current, current + duration) >> ELSE << >>)
         \o WalkMock(current + SlotStepMinutes, end_dt, duration, busy)
    ELSE << >>

RECURSIVE WalkSorted(_, _, _, _)
WalkSorted(current, end_dt, duration, sorted) ==
    IF current + duration <= end_dt
    THEN (IF IsFreeSortedScan(current, current + duration, sorted, 1)
          THEN << Interval(current, current + duration) >> ELSE << >>)
         \o WalkSorted(current + SlotStepMinutes, end_dt, duration, sorted)
    ELSE << >>

\* the busy period the free/busy query reports for an event
BusyOf(ev) == Interval(ev.start, ev.end)

RECURSIVE BusyPeriods(_, _, _)
BusyPeriods(events, timeMin, timeMax) ==
    IF events = << >> THEN << >>
    ELSE (IF Head(events).end > timeMin /\ Head(events).start < timeMax
          THEN << BusyOf(Head(events)) >> ELSE << >>)
         \o BusyPeriods(Tail(events), timeMin, timeMax)

RECURSIVE EventsIn(_, _, _)
EventsIn(events, timeMin, timeMax) ==
    IF events = << >> THEN << >>
    ELSE (IF Head(events).end > timeMin /\ Head(events).start < timeMax
          THEN << Head(events) >> ELSE << >>)
         \o EventsIn(Tail(events), timeMin, timeMax)

Max2(a, b) == IF a > b THEN a ELSE b
Min2(a, b) == IF a < b THEN a ELSE b

\* CalendarService.get_available_slots, step 1: the busy times of the
\* work day, all-day events blocking it whole, timed events clamped to it
RECURSIVE ClampedBusy(_, _, _)
ClampedBusy(events, start_time, end_time) ==
    IF events = << >> THEN << >>
    ELSE LET ev == Head(events)
             s == IF ev.allday THEN start_time ELSE Max2(ev.start, start_time)
             e == IF ev.allday THEN end_time ELSE Min2(ev.end, end_time)
         IN  (IF e > start_time /\ s < end_time
              THEN << Interval(s, e) >> ELSE << >>)
             \o ClampedBusy(Tail(events), start_time, end_time)

\* CalendarService.get_available_slots, steps 2 and 3
RECURSIVE WalkWorkday(_, _, _, _)
WalkWorkday(current_time, end_time, duration, busy) ==
    IF current_time + duration <= end_time
    THEN (IF IsFreeFullScan(current_time, current_time + duration, busy)
          THEN << Interval(current_time, current_time + duration) >> ELSE << >>)
         \o WalkWorkday(current_time + SLOT_INTERVAL_MINUTES, end_time, duration, busy)
    ELSE << >>

\* CalendarService._get_mock_available_slots: the half-hour starts of the
\* work day whose end has an hour-of-day before 17:00 or is 17:00 sharp
RECURSIVE MockHalfHours(_, _, _)
MockHalfHours(day, k, duration) ==
    LET hour == WORK_START_HOUR + (k \div 2)
        minute == (k % 2) * 30
        start_time == At(day, hour, minute)
        end_time == start_time + duration
    IN  IF hour >= WORK_END_HOUR THEN << >>
        ELSE IF hour = WORK_END_HOUR - 1 /\ minute = 30
        THEN MockHalfHours(day, k + 1, duration)
        ELSE (IF HourOf(end_time) < WORK_END_HOUR
                 \/ (HourOf(end_time) = WORK_END_HOUR /\ MinuteOf(end_time) = 0)
              THEN << Interval(start_time, end_time) >> ELSE << >>)
             \o MockHalfHours(day, k + 1, duration)

mock_slots_of_half_an_hour(day, duration_minutes) ==
    MockHalfHours(day, 0, 30)

get_mock_available_slots(day, duration_minutes) ==
    MockHalfHours(day, 0, duration_minutes)

\* ------------------------------------------------------------------------
\* Calendar services: inputs
\* ------------------------------------------------------------------------
Days == {0, 1}
Durations == {30, 45, 60, 480, 540, 960}
QueryStarts == {At(0, 9, 0), At(0, 13, 0)}
QueryEnds == {At(0, 8, 0), At(0, 9, 0), At(0, 12, 0), At(0, 17, 0)}

TimedEvents ==
    { Event(At(0, 10, 0), At(0, 11, 0), FALSE),
      Event(At(0, 9, 30), At(0, 10, 15), FALSE),
      Event(At(0, 8, 0), At(0, 9, 30), FALSE),
      Event(At(0, 16, 30), At(0, 18, 0), FALSE),
      Event(At(0, 10, 15), At(0, 10, 30), FALSE) }

AllDayEvents == { Event(At(0, 0, 0), At(1, 0, 0), TRUE) }

NoResult ==
    [op |-> "none", start |-> 0, end |-> 0, duration |-> 0,
     busy |-> << >>, status |-> "none", slots |-> << >>,
     query_failed |-> FALSE, booked |-> {}]

Result(op, s, e, d, status, slots) ==
    [op |-> op, start |-> s, end |-> e, duration |-> d,
     busy |-> BusyPeriods(busy_times, s, e), status |-> status, slots |-> slots,
     query_failed |-> FALSE, booked |-> booked]

\* the result of a call in which the query to the Google calendar raised
AfterFailedQuery(result) == [result EXCEPT !.query_failed = TRUE]

\* ------------------------------------------------------------------------
\* Calendar services: operations
\* ------------------------------------------------------------------------
AvailInit ==
    /\ calendar_mode \in {"mock", "real"}
    /\ busy_times = IF calendar_mode = "mock" THEN MockBusyInit ELSE << >>
    /\ events_created = 0
    /\ avail = NoResult
    /\ booked = {}

\* MockCalendarService.get_free_slots
MockGetFreeSlots(start_dt, end_dt, duration_minutes) ==
    WalkMock(start_dt, end_dt, duration_minutes,
             [i \in 1..Len(busy_times) |-> BusyOf(busy_times[i])])

\* CalendarService.get_free_slots
GetFreeSlots(start_dt, end_dt, duration_minutes, query_ok) ==
    /\ avail' =
         IF calendar_mode = "mock"
         THEN Result("get_free_slots", start_dt, end_dt, duration_minutes, "ok",
                     MockGetFreeSlots(start_dt, end_dt, duration_minutes))
         ELSE IF duration_minutes <= 0 \/ end_dt <= start_dt
         THEN Result("get_free_slots", start_dt, end_dt, duration_minutes,
                     "ValueError", << >>)
         ELSE IF ~query_ok
         THEN AfterFailedQuery(
                  Result("get_free_slots", start_dt, end_dt, duration_minutes,
                         "RuntimeError", << >>))
         ELSE Result("get_free_slots", start_dt, end_dt, duration_minutes, "ok",
                     WalkSorted(start_dt, end_dt, duration_minutes,
                                SortByStart(BusyPeriods(busy_times, start_dt, end_dt))))
    /\ UNCHANGED <<calendar_mode, busy_times, events_created, booked>>
    /\ UNCHANGED <<agentVars, apiVars, llmVars, isoVars, cacheVars, svcVars>>

\* CalendarService.get_available_slots (the definition at line 367, which
\* replaces the one at line 352 in the class body)
GetAvailableSlots(day, duration_minutes, fetch_ok) ==
    LET start_time == At(day, WORK_START_HOUR, 0)
        end_time == At(day, WORK_END_HOUR, 0)
    IN
    /\ avail' =
         IF calendar_mode = "mock"
         THEN Result("get_available_slots", start_time, end_time, duration_minutes,
                     "ok", get_mock_available_slots(day, duration_minutes))
         ELSE IF start_time >= end_time
         THEN Result("get_available_slots", start_time, end_time, duration_minutes,
                     "ok", << >>)
         ELSE IF ~fetch_ok
         THEN AfterFailedQuery(
                  Result("get_available_slots", start_time, end_time,
                         duration_minutes, "ok",
                         get_mock_available_slots(day, duration_minutes)))
         ELSE Result("get_available_slots", start_time, end_time, duration_minutes,
                     "ok",
                     WalkWorkday(start_time, end_time, duration_minutes,
                                 ClampedBusy(EventsIn(busy_times, start_time, end_time),
                                             start_time, end_time)))
    /\ UNCHANGED <<calendar_mode, busy_times, events_created, booked>>
    /\ UNCHANGED <<agentVars, apiVars, llmVars, isoVars, cacheVars, svcVars>>

\* CalendarService.create_event: in mock mode the event joins
\* mock_busy_times unchecked; otherwise end_time <= start_time is refused
\* and the event is inserted into the primary calendar
CreateEvent(ev) ==
    /\ events_created < MaxCreated
    /\ calendar_mode = "real" => ev.end > ev.start
    /\ busy_times' = Append(busy_times, ev)
    /\ events_created' = events_created + 1
    /\ UNCHANGED <<calendar_mode, avail, booked>>
    /\ UNCHANGED <<agentVars, apiVars, llmVars, isoVars, cacheVars, svcVars>>

\* an all-day event entered in the Google calendar by its owner; the
\* events query of get_available_slots reports it with a 'date' only
OwnerAddsAllDayEvent(ev) ==
    /\ calendar_mode = "real"
    /\ events_created < MaxCreated
    /\ busy_times' = Append(busy_times, ev)
    /\ events_created' = events_created + 1
    /\ UNCHANGED <<calendar_mode, avail, booked>>
    /\ UNCHANGED <<agentVars, apiVars, llmVars, isoVars, cacheVars, svcVars>>

\* the slot callers book
BookableSlots == { Interval(At(0, 11, 0), At(0, 12, 0)) }

\* MockCalendarService.book_slot, the booking of the mock calendar a
\* CalendarService without a Google service holds: create_event appends
\* the event to mock_busy_times and the answer is "mock_booked"
MockBookSlot(slot) ==
    /\ calendar_mode = "mock"
    /\ events_created < MaxCreated
    /\ busy_times' = Append(busy_times, Event(slot.start, slot.end, FALSE))
    /\ events_created' = events_created + 1
    /\ booked' = booked \cup {slot}
    /\ UNCHANGED <<calendar_mode, avail>>
    /\ UNCHANGED <<agentVars, apiVars, llmVars, isoVars, cacheVars, svcVars>>

\* the number of positional arguments of a call cs.book_slot(start, end, ...):
\* start and end, then summary, description and attendees as far as given
BookSlotArgCounts == 2..5

\* CalendarService.book_slot as the class body binds it: the definition
\* at the end of the class replaces the earlier ones.  It has no self
\* parameter, so the instance takes the place of start_time: with two to
\* four arguments the body runs and calls get_calendar_service, a name of
\* the class body no method can see (NameError); with five arguments, as
\* create_booking passes them, the call itself is refused (TypeError: takes
\* from 3 to 5 positional arguments but 6 were given).  Nothing is booked.
BookSlot(slot, nargs) ==
    /\ avail' = Result("book_slot", slot.start, slot.end, 0,
                       IF nargs + 1 <= 5 THEN "NameError" ELSE "TypeError",
                       << >>)
    /\ UNCHANGED <<calendar_mode, busy_times, events_created, booked>>
    /\ UNCHANGED <<agentVars, apiVars, llmVars, isoVars, cacheVars, svcVars>>

AvailNext ==
    \/ \E s \in QueryStarts, e \in QueryEnds, d \in Durations, ok \in BOOLEAN :
          GetFreeSlots(s, e, d, ok)
    \/ \E day \in Days, d \in Durations, ok \in BOOLEAN :
          GetAvailableSlots(day, d, ok)
    \/ \E ev \in TimedEvents : CreateEvent(ev)
    \/ \E ev \in AllDayEvents : OwnerAddsAllDayEvent(ev)
    \/ \E slot \in BookableSlots : MockBookSlot(slot)
    \/ \E slot \in BookableSlots, nargs \in BookSlotArgCounts :
          BookSlot(slot, nargs)


\* ------------------------------------------------------------------------
\* BookingAgent (backend/app/services/agent_service.py): text
\* ------------------------------------------------------------------------
\* The messages users send in the model.  Every message is a sequence of
\* words; none of the words properly contains a keyword of the agent, so
\* the agent's substring tests ("keyword in text") are word membership.
Msgs ==
    { "hello", "Book now", "reserve", "therapy please",
      "I need a consultation tomorrow at 2pm for 90 minutes",
      "ann@site.org" }

\* message.lower(), split into words
LowerWords(m) ==
    CASE m = "hello" -> << "hello" >>
      [] m = "Book now" -> << "book", "now" >>
      [] m = "reserve" -> << "reserve" >>
      [] m = "therapy please" -> << "therapy", "please" >>
      [] m = "I need a consultation tomorrow at 2pm for 90 minutes" ->
            << "i", "need", "a", "consultation", "tomorrow", "at", "2pm",
               "for", "90 minutes" >>
      [] m = "ann@site.org" -> << "ann@site.org" >>
      [] m = "workshop at 11pm for 300 minutes" ->
            << "workshop", "at", "11pm", "for", "300 minutes" >>
      [] OTHER -> << >>

Contains(m, keyword) == \E i \in 1..Len(LowerWords(m)) : LowerWords(m)[i] = keyword
ContainsAny(m, keywords) == \E k \in keywords : Contains(m, k)

None == "None"

\* the first word of the message, in order, that a table knows
RECURSIVE FirstIn(_, _)
FirstIn(words, known) ==
    IF words = << >> THEN None
    ELSE IF Head(words) \in known THEN Head(words)
    ELSE FirstIn(Tail(words), known)

\* _extract_entities_regex: booking_keywords
booking_keywords ==
    {"book", "schedule", "appointment", "meeting", "reserve", "set up", "need", "want"}

\* _extract_entities_regex: service_keywords, in the order of the dict
service_keyword_order ==
    << "meeting", "consultation", "therapy", "workshop", "appointment",
       "business", "creative" >>

service_keywords(keyword) ==
    CASE keyword = "meeting" -> "meeting"
      [] keyword = "consultation" -> "consultation"
      [] keyword = "therapy" -> "therapy session"
      [] keyword = "workshop" -> "workshop"
      [] keyword = "appointment" -> "consultation"
      [] keyword = "business" -> "business consultation"
      [] keyword = "creative" -> "creative session"
      [] OTHER -> None

\* for keyword, service in service_keywords.items(): first keyword in text
RECURSIVE FirstServiceKeyword(_, _)
FirstServiceKeyword(m, i) ==
    IF i > Len(service_keyword_order) THEN None
    ELSE IF Contains(m, service_keyword_order[i]) THEN service_keyword_order[i]
    ELSE FirstServiceKeyword(m, i + 1)

\* text_lower in option_lower: the whole text is part of the keyword
WithinKeyword(m, keyword) == m = "" \/ (m = "meet" /\ keyword = "meeting")

\* fuzzy_match, first loop: the first option that contains the text or is
\* contained in it
RECURSIVE FirstSubstringMatch(_, _)
FirstSubstringMatch(m, i) ==
    IF i > Len(service_keyword_order) THEN None
    ELSE IF WithinKeyword(m, service_keyword_order[i])
            \/ Contains(m, service_keyword_order[i])
    THEN service_keyword_order[i]
    ELSE FirstSubstringMatch(m, i + 1)

\* AdvancedNLPProcessor.fuzzy_match(text_lower, keywords): the first
\* keyword that contains the text or is contained in it; failing that the
\* keyword closest to the text with ratio >= 0.6, and none of the messages
\* of the model is that close to a keyword
fuzzy_match(m) == FirstSubstringMatch(m, 1)

\* date_patterns: tomorrow, today, next <weekday>, this <weekday>
DateOf(m) ==
    IF Contains(m, "tomorrow") THEN "now+1d"
    ELSE IF Contains(m, "today") THEN "now"
    ELSE None

\* time_patterns and duration_patterns: match.group(0)
TimeWords == {"2pm", "10:30am", "14:00", "11pm"}
DurationWords == {"90 minutes", "30 min", "1 hour", "300 minutes"}

EntityKeys(m) ==
    LET kw == FirstServiceKeyword(m, 1)
        detected == IF kw # None THEN service_keywords(kw)
                    ELSE IF fuzzy_match(m) # None THEN service_keywords(fuzzy_match(m))
                    ELSE None
    IN  (IF detected # None THEN {"service_type"} ELSE {})
        \cup (IF DateOf(m) # None THEN {"date"} ELSE {})
        \cup (IF FirstIn(LowerWords(m), TimeWords) # None THEN {"time"} ELSE {})
        \cup (IF FirstIn(LowerWords(m), DurationWords) # None THEN {"duration"} ELSE {})
        \cup (IF ContainsAny(m, booking_keywords) THEN {"intent"} ELSE {})

\* BookingAgent._extract_entities_regex
extract_entities_regex(m) ==
    [k \in EntityKeys(m) |->
        CASE k = "service_type" ->
                (IF FirstServiceKeyword(m, 1) # None
                 THEN service_keywords(FirstServiceKeyword(m, 1))
                 ELSE service_keywords(fuzzy_match(m)))
          [] k = "date" -> DateOf(m)
          [] k = "time" -> FirstIn(LowerWords(m), TimeWords)
          [] k = "duration" -> FirstIn(LowerWords(m), DurationWords)
          [] k = "intent" -> "booking"]

\* re.search(r"[\w\.-]+@[\w\.-]+\.\w+", message)
EmailIn(m) ==
    CASE m = "ann@site.org" -> "ann@site.org"
      [] OTHER -> None

\* how the call of EmailService.send_booking_confirmation ends: it returns
\* True, it returns False, or the call raises
NotifyOutcomes == {"sent", "failed", "raised"}

\* dictionaries: d[k] = v, k in d, d.get(k)
EmptyDict == [k \in {} |-> None]
Has(d, k) == k \in DOMAIN d
Get(d, k) == IF k \in DOMAIN d THEN d[k] ELSE None
Put(d, k, v) == [x \in (DOMAIN d) \cup {k} |-> IF x = k THEN v ELSE d[x]]

\* ------------------------------------------------------------------------
\* BookingAgent: one turn
\* ------------------------------------------------------------------------
\* ConversationMessage(role, content); the content is named by the
\* process_message call it belongs to: for role "user" the message of
\* call n, for role "assistant" the reply to it
Msg(role, n) == [role |-> role, content |-> n]

\* AgentResponse(message, booking_data, suggested_slots, requires_confirmation)
AgentResponse(message, booking_data, suggested_slots) ==
    [message |-> message, booking_data |-> booking_data,
     suggested_slots |-> suggested_slots, requires_confirmation |-> FALSE]

NoData == [k \in {"None"} |-> None]

\* what a handler hands back: the state it leaves and its response
Handled(stg, data, resp, mail) ==
    [stage |-> stg, data |-> data, resp |-> resp, mail |-> mail]

\* BookingAgent._apply_extracted_entities
apply_extracted_entities(data, entities) ==
    IF Has(entities, "service_type")
    THEN Put(data, "service_type", entities["service_type"])
    ELSE data

\* BookingAgent._get_context_suggestions: the number of suggestions
get_context_suggestions(stg, data) ==
    IF stg \in {"showing_slots", "confirming"} THEN 3
    ELSE IF stg = "greeting" THEN 2
    ELSE 0

greeting_cues == {"book", "schedule", "appointment", "meeting", "need", "want"}

\* ---- faulty handlers, which the properties of the stages must reject

\* a greeting handler that never leaves greeting
greeting_ignores_intent(stg, data, m, entities, suggestions) ==
    Handled(stg, data, AgentResponse("hello", NoData, FALSE), << >>)

\* a greeting handler that always asks for the missing details first
greeting_never_skips(stg, data, m, entities, suggestions) ==
    IF Get(entities, "intent") = "booking" \/ ContainsAny(m, greeting_cues)
    THEN Handled("collecting_info", data,
                 AgentResponse("ask_service", NoData, FALSE), << >>)
    ELSE Handled(stg, data, AgentResponse("hello", NoData, FALSE), << >>)

\* an info handler that shows slots whether or not it knows the service
info_collection_always_advances(stg, data, m, entities, suggestions) ==
    Handled("showing_slots", data,
            AgentResponse("check_slots_tomorrow", data, FALSE), << >>)

\* a confirmation handler for which the booking stands only once the
\* email is out
confirmation_needs_email(stg, data, m, entities, suggestions, email_sent) ==
    IF email_sent = "sent"
    THEN Handled("completed", data,
                 AgentResponse("confirmed_email_sent", data, FALSE),
                 << "user@example.com" >>)
    ELSE Handled(stg, data,
                 AgentResponse("confirmed_email_unavailable", data, FALSE), << >>)

\* a completion handler that starts a new conversation
completion_reopens(stg, data, m, entities, suggestions) ==
    Handled("greeting", data, AgentResponse("closing", NoData, FALSE), << >>)

\* BookingAgent._handle_greeting
handle_greeting(stg, data, m, entities, suggestions) ==
    IF Get(entities, "intent") = "booking" \/ ContainsAny(m, greeting_cues)
    THEN IF Has(entities, "service_type")
         THEN LET d1 == Put(data, "service_type", entities["service_type"])
              IN  IF Has(entities, "date") /\ Has(entities, "time")
                  THEN LET d2 == Put(Put(d1, "date", entities["date"]),
                                     "time", entities["time"])
                       IN  Handled("showing_slots", d2,
                                   AgentResponse("check_slots", d2, FALSE), << >>)
                  ELSE Handled("collecting_info", d1,
                               AgentResponse("when", d1, FALSE), << >>)
         ELSE Handled("collecting_info", data,
                      AgentResponse("ask_service", NoData, FALSE), << >>)
    ELSE Handled(stg, data,
                 AgentResponse(IF suggestions > 0 THEN "hello_quick_actions" ELSE "hello",
                               NoData, FALSE), << >>)

\* BookingAgent._handle_info_collection
handle_info_collection(stg, data, m, entities, suggestions) ==
    LET d1 == IF Has(entities, "service_type")
              THEN Put(data, "service_type", entities["service_type"]) ELSE data
    IN  IF Has(d1, "service_type")
        THEN Handled("showing_slots", d1, AgentResponse("check_slots_tomorrow", d1, FALSE), << >>)
        ELSE Handled(stg, d1, AgentResponse("ask_service", NoData, FALSE), << >>)

\* BookingAgent._handle_slot_selection
handle_slot_selection(stg, data, m, entities, suggestions) ==
    IF Get(data, "user_email") = None
    THEN Handled("collecting_email", data, AgentResponse("ask_email", data, TRUE), << >>)
    ELSE Handled("confirming", data, AgentResponse("slots", data, TRUE), << >>)

\* an email handler that asks again whatever the message holds
collecting_email_asks_again(stg, data, m, entities, suggestions) ==
    Handled(stg, data, AgentResponse("invalid_email", data, FALSE), << >>)

\* BookingAgent._handle_collecting_email
handle_collecting_email(stg, data, m, entities, suggestions) ==
    IF EmailIn(m) # None
    THEN LET d1 == Put(data, "user_email", EmailIn(m))
         IN  Handled("confirming", d1, AgentResponse("email_saved", d1, FALSE), << >>)
    ELSE Handled(stg, data, AgentResponse("invalid_email", data, FALSE), << >>)

\* the booking_data the confirmation handlers build from a copy of the draft
ConfirmedBookingData(data) ==
    LET b1 == Put(Put(Put(data, "booking_id", "BK<now>"),
                      "booking_timestamp", "<now>"),
                  "confirmation_number", "CNF-<today>-<hash>")
        b2 == IF ~Has(b1, "date") \/ b1["date"] = "Unknown"
              THEN Put(b1, "date", "Tomorrow") ELSE b1
        b3 == IF ~Has(b2, "time") \/ b2["time"] = "Unknown"
              THEN Put(b2, "time", "10:00 AM") ELSE b2
        b4 == IF ~Has(b3, "duration_minutes")
              THEN Put(b3, "duration_minutes", "60") ELSE b3
        b5 == Put(Put(Put(b4, "user_email", "user@example.com"),
                      "user_name", "Valued Customer"),
                  "contact_phone", "+1 (555) 123-4567")
    IN  Put(Put(Put(b5, "location", "Main Office - Conference Room A"),
                "instructions", "arrive 5 minutes before"),
            "cancellation_policy", "free up to 24 hours before")

\* BookingAgent._handle_confirmation.  The handler ignores what
\* send_booking_confirmation returns and words the reply by whether the
\* call raised; EmailService.send_booking_confirmation itself catches every
\* exception and returns False, while the loop.run_until_complete around it
\* in _handle_confirmation_sync raises when a loop is already running.
handle_confirmation(stg, data, m, entities, suggestions, email_sent) ==
    LET booking_data == ConfirmedBookingData(data)
    IN  Handled("completed", data,
                AgentResponse(IF email_sent = "raised"
                              THEN "confirmed_email_unavailable"
                              ELSE "confirmed_email_sent", booking_data, FALSE),
                IF email_sent = "sent" THEN << booking_data["user_email"] >>
                ELSE << >>)

\* BookingAgent._handle_booking
handle_booking(stg, data, m, entities, suggestions) ==
    Handled("completed", data, AgentResponse("booking_created", data, FALSE), << >>)

\* BookingAgent._handle_completion
handle_completion(stg, data, m, entities, suggestions) ==
    Handled(stg, data, AgentResponse("closing", NoData, FALSE), << >>)

\* self.conversation_stages.get(state.stage, self._handle_greeting)
conversation_stages(stg, data, m, entities, suggestions, email_sent) ==
    CASE stg = "greeting" -> handle_greeting(stg, data, m, entities, suggestions)
      [] stg = "collecting_info" -> handle_info_collection(stg, data, m, entities, suggestions)
      [] stg = "showing_slots" -> handle_slot_selection(stg, data, m, entities, suggestions)
      [] stg = "collecting_email" -> handle_collecting_email(stg, data, m, entities, suggestions)
      [] stg = "confirming" -> handle_confirmation(stg, data, m, entities, suggestions, email_sent)
      [] stg = "booking" -> handle_booking(stg, data, m, entities, suggestions)
      [] stg = "completed" -> handle_completion(stg, data, m, entities, suggestions)
      [] OTHER -> handle_greeting(stg, data, m, entities, suggestions)

\* ---- the synchronous handlers of the fallback path

\* BookingAgent._handle_greeting_sync
handle_greeting_sync(stg, data, m, entities, suggestions) ==
    IF Get(entities, "intent") = "booking" \/ ContainsAny(m, greeting_cues)
    THEN IF Has(entities, "service_type")
         THEN LET d1 == Put(data, "service_type", entities["service_type"])
              IN  IF Has(entities, "date") /\ Has(entities, "time")
                  THEN LET d2 == Put(Put(d1, "date", entities["date"]),
                                     "time", entities["time"])
                       IN  Handled("showing_slots", d2,
                                   AgentResponse("check_slots", d2, FALSE), << >>)
                  ELSE Handled("collecting_info", d1,
                               AgentResponse("when", d1, FALSE), << >>)
         ELSE Handled("collecting_info", data,
                      AgentResponse("ask_service", NoData, FALSE), << >>)
    ELSE Handled(stg, data,
                 AgentResponse(IF suggestions > 0 THEN "hello_quick_actions" ELSE "hello",
                               NoData, FALSE), << >>)

\* BookingAgent._handle_info_collection_sync
handle_info_collection_sync(stg, data, m, entities, suggestions) ==
    LET d1 == IF Has(entities, "service_type")
              THEN Put(data, "service_type", entities["service_type"]) ELSE data
    IN  IF Has(d1, "service_type")
        THEN Handled("showing_slots", d1, AgentResponse("check_slots_tomorrow", d1, FALSE), << >>)
        ELSE Handled(stg, d1, AgentResponse("ask_service", NoData, FALSE), << >>)

\* BookingAgent._handle_slot_selection_sync
handle_slot_selection_sync(stg, data, m, entities, suggestions) ==
    Handled("confirming", data, AgentResponse("slots", data, TRUE), << >>)

\* BookingAgent._handle_confirmation_sync
handle_confirmation_sync(stg, data, m, entities, suggestions, email_sent) ==
    LET booking_data == ConfirmedBookingData(data)
    IN  Handled("completed", data,
                AgentResponse(IF email_sent = "raised"
                              THEN "confirmed_email_unavailable"
                              ELSE "confirmed_email_sent", booking_data, FALSE),
                IF email_sent = "sent" THEN << booking_data["user_email"] >>
                ELSE << >>)

\* BookingAgent._handle_booking_sync
handle_booking_sync(stg, data, m, entities, suggestions) ==
    Handled("completed", data, AgentResponse("booking_created", data, FALSE), << >>)

\* BookingAgent._handle_completion_sync
handle_completion_sync(stg, data, m, entities, suggestions) ==
    Handled(stg, data, AgentResponse("closing", NoData, FALSE), << >>)

\* the if / elif chain of _process_message_sync
sync_stage_dispatch(stg, data, m, entities, suggestions, email_sent) ==
    CASE stg = "greeting" -> handle_greeting_sync(stg, data, m, entities, suggestions)
      [] stg = "collecting_info" -> handle_info_collection_sync(stg, data, m, entities, suggestions)
      [] stg = "showing_slots" -> handle_slot_selection_sync(stg, data, m, entities, suggestions)
      [] stg = "confirming" -> handle_confirmation_sync(stg, data, m, entities, suggestions, email_sent)
      [] stg = "booking" -> handle_booking_sync(stg, data, m, entities, suggestions)
      [] stg = "completed" -> handle_completion_sync(stg, data, m, entities, suggestions)
      [] OTHER -> handle_greeting_sync(stg, data, m, entities, suggestions)

\* ---- the state one call works on
Session(stg, data, msgs, cache, mail, resp) ==
    [stage |-> stg, data |-> data, messages |-> msgs, cache |-> cache,
     outbox |-> mail, response |-> resp]

\* AsyncTTLCache.get: the entry, unless it is as old as the TTL
CacheHit(cache, m, expired) == m \in DOMAIN cache /\ ~expired
CacheGet(cache, m, expired) == IF CacheHit(cache, m, expired) THEN cache[m] ELSE EmptyDict
CacheAfterGet(cache, m, expired) ==
    IF m \in DOMAIN cache /\ expired
    THEN [x \in (DOMAIN cache) \ {m} |-> cache[x]]
    ELSE cache

\* process_message_async: state.messages.append(user message)
AppendUser(s, n) == [s EXCEPT !.messages = Append(@, Msg("user", n))]

\* process_message_async, from the cache lookup to the end
AsyncFromExtraction(s, n, m, expired, email_sent) ==
    LET cached == CacheGet(s.cache, m, expired)
        cache1 == CacheAfterGet(s.cache, m, expired)
        miss == DOMAIN cached = {}
        extracted_entities == IF miss THEN extract_entities_regex(m) ELSE cached
        cache2 == IF miss THEN Put(cache1, m, extracted_entities) ELSE cache1
        data1 == IF DOMAIN extracted_entities # {}
                 THEN apply_extracted_entities(s.data, extracted_entities)
                 ELSE s.data
        suggestions == get_context_suggestions(s.stage, data1)
        h == conversation_stages(s.stage, data1, m, extracted_entities,
                                 suggestions, email_sent)
    IN  Session(h.stage, h.data,
                Append(s.messages, Msg("assistant", n)),
                cache2, s.outbox \o h.mail, h.resp)

\* BookingAgent.process_message_async
process_message_async(s, n, m, expired, email_sent) ==
    AsyncFromExtraction(AppendUser(s, n), n, m, expired, email_sent)

\* BookingAgent._process_message_sync
process_message_sync(s, n, m, email_sent) ==
    LET s1 == [s EXCEPT !.messages = Append(@, Msg("user", n))]
        extracted_entities == extract_entities_regex(m)
        data1 == IF DOMAIN extracted_entities # {}
                 THEN apply_extracted_entities(s1.data, extracted_entities)
                 ELSE s1.data
        suggestions == get_context_suggestions(s1.stage, data1)
        h == sync_stage_dispatch(s1.stage, data1, m, extracted_entities,
                                 suggestions, email_sent)
    IN  Session(h.stage, h.data,
                Append(s1.messages, Msg("assistant", n)),
                s1.cache, s1.outbox \o h.mail, h.resp)

\* process_message_async up to the point where awaiting the extraction
\* raises: the user message is appended and an expired cache entry deleted
AsyncUntilExtractionRaises(s, n, m, expired) ==
    [AppendUser(s, n) EXCEPT !.cache = CacheAfterGet(s.cache, m, expired)]

\* BookingAgent.process_message: the async path, and on any exception of
\* it the synchronous fallback on the same state object.  `attempts` lists
\* how the runs of the async path end, in order:
\*   "ok"      process_message_async returns
\*   "start"   the run raises before the coroutine touched the state
\*   "extract" awaiting _extract_entities_async raises
\* A RuntimeError of the first run is caught by the inner `except
\* RuntimeError`, which runs the async path once more on a new loop; any
\* other exception, and any exception of the second run, ends in
\* _process_message_sync.
RECURSIVE process_message(_, _, _, _, _, _)
process_message(s, n, m, attempts, expired, email_sent) ==
    IF attempts = << >> THEN process_message_sync(s, n, m, email_sent)
    ELSE CASE Head(attempts) = "ok" ->
                 process_message_async(s, n, m, expired, email_sent)
           [] Head(attempts) = "start" ->
                 process_message(s, n, m, Tail(attempts), expired, email_sent)
           [] Head(attempts) = "extract" ->
                 process_message(AsyncUntilExtractionRaises(s, n, m, expired),
                                 n, m, Tail(attempts), expired, email_sent)

\* the ways a call can go wrong.  Called from a coroutine (send_message),
\* the second run cannot start: "Cannot run the event loop while another
\* loop is running"
FailedAttempts ==
    { << "start" >>, << "extract" >> }

\* called from plain code, the second run happens
RetriedAttempts ==
    { << "start", "ok" >>, << "extract", "ok" >>, << "extract", "extract" >> }

RaisesAtExtraction(attempts) ==
    \E i \in 1..Len(attempts) : attempts[i] = "extract"

Current ==
    Session(stage, current_booking_data, messages, async_cache, outbox, response)

NoResponse == AgentResponse("none", NoData, FALSE)

\* a ConversationState with the given messages, and the agent's own fields
AgentStart(history) ==
    /\ stage = "greeting"
    /\ current_booking_data = EmptyDict
    /\ messages = history
    /\ async_cache = EmptyDict
    /\ response = NoResponse
    /\ outbox = << >>
    /\ booking_calls = 0
    /\ turns = 0
    /\ failed_calls = 0

AgentInit == AgentStart(<< >>)

Commit(s) ==
    /\ stage' = s.stage
    /\ current_booking_data' = s.data
    /\ messages' = s.messages
    /\ async_cache' = s.cache
    /\ outbox' = s.outbox
    /\ response' = s.response
    /\ turns' = turns + 1
    /\ UNCHANGED booking_calls

\* inputs that make no difference are not enumerated twice
Relevant(m, expired, email_sent) ==
    /\ expired => m \in DOMAIN async_cache
    /\ email_sent # "sent" => stage = "confirming"

\* a process_message call whose async path returns
ProcessMessage(m, expired, email_sent) ==
    /\ turns < MaxTurns
    /\ Relevant(m, expired, email_sent)
    /\ Commit(process_message(Current, turns + 1, m, << "ok" >>, expired, email_sent))
    /\ UNCHANGED failed_calls
    /\ UNCHANGED <<availVars, apiVars, llmVars, isoVars, cacheVars, svcVars>>

\* a process_message call whose async path raises
ProcessMessageFallback(m, attempts, expired, email_sent) ==
    /\ turns < MaxTurns
    /\ failed_calls < MaxFailedCalls
    /\ Relevant(m, expired, email_sent)
    /\ RaisesAtExtraction(attempts) =>
          DOMAIN CacheGet(async_cache, m, expired) = {}
    /\ Commit(process_message(Current, turns + 1, m, attempts, expired, email_sent))
    /\ failed_calls' = failed_calls + 1
    /\ UNCHANGED <<availVars, apiVars, llmVars, isoVars, cacheVars, svcVars>>

\* BookingAgent.optimize_performance, called outside a running event loop:
\* asyncio.run(self.async_cache.clear_expired()) drops the entries older
\* than the ttl, `aged`; the agent has no _access_patterns, and the rest of
\* the method is skipped.  No turn is taken.
OptimizePerformance(aged) ==
    /\ aged \subseteq DOMAIN async_cache
    /\ async_cache' = [m \in (DOMAIN async_cache) \ aged |-> async_cache[m]]
    /\ UNCHANGED <<stage, current_booking_data, messages, response, outbox,
                   booking_calls, turns, failed_calls>>
    /\ UNCHANGED <<availVars, apiVars, llmVars, isoVars, cacheVars, svcVars>>

AvailIdle ==
    /\ calendar_mode = "mock"
    /\ busy_times = MockBusyInit
    /\ events_created = 0
    /\ avail = NoResult
    /\ booked = {}

\* ------------------------------------------------------------------------
\* send_message (backend/app/main.py) on the event loop of the server
\* ------------------------------------------------------------------------
Requests == 1..MaxRequests

\* the "message" field of the request bodies
RequestMessages == Msgs \cup {""}

Request(pc, m) == [pc |-> pc, message |-> m]

\* the session was opened by start_conversation: stored and persisted
ApiIdle ==
    /\ requests = [r \in Requests |-> Request("pending", "")]
    /\ event_loop = 0
    /\ conversations = "present"
    /\ session_file = 0
    /\ last_message_time = "None"

\* ConversationMessage.timestamp of the last message, as cleanup_old_sessions
\* reads it: None, or a time within or beyond max_age_hours
MessageTimes == {"None", "recent", "old"}

\* the messages of a session file read by _load_persisted_sessions: none,
\* or an exchange from before the start
LoadedHistories == { << >>, << Msg("user", 0), Msg("assistant", 0) >> }

\* the session is known to the server or not (a restart without its file)
ApiInit ==
    /\ requests = [r \in Requests |-> Request("pending", "")]
    /\ event_loop = 0
    /\ conversations \in {"present", "absent"}
    /\ messages \in (IF conversations = "present" THEN LoadedHistories
                     ELSE { << >> })
    /\ session_file = (IF conversations = "present" THEN Len(messages) ELSE -1)
    /\ last_message_time \in (IF messages = << >> THEN {"None"}
                              ELSE MessageTimes)

\* a send_message that awaits between reading the session and the turn
AwaitsAfterRead(position) == position = "got"

\* whether the coroutine send_message gives up the event loop on reaching a
\* position: it has no await expression; booking_agent.process_message is
\* an ordinary call that blocks in future.result() while a worker thread
\* runs the turn
Awaits(position) == FALSE

\* the event loop runs one coroutine until it awaits or returns
CanRun(r) ==
    \/ event_loop = r
    \/ event_loop = 0 /\ requests[r].pc # "done"

RunningAfter(r, position) ==
    IF position = "done" \/ Awaits(position) THEN 0 ELSE r

\* send_message up to the agent call: an empty message is refused with 400;
\* get_conversation, and for an unknown session a new ConversationState
\* (stage greeting, no messages, empty draft) that is stored
SendMessageEnter(r, m) ==
    /\ requests[r].pc = "pending"
    /\ CanRun(r)
    /\ IF m = ""
       THEN /\ requests' = [requests EXCEPT ![r] = Request("done", m)]
            /\ event_loop' = RunningAfter(r, "done")
            /\ UNCHANGED <<conversations, session_file, last_message_time>>
            /\ UNCHANGED <<stage, current_booking_data, messages>>
       ELSE /\ requests' = [requests EXCEPT ![r] = Request("got", m)]
            /\ event_loop' = RunningAfter(r, "got")
            /\ conversations' = "present"
            /\ IF conversations = "absent"
               THEN /\ session_file' = 0
                    /\ stage' = "greeting"
                    /\ current_booking_data' = EmptyDict
                    /\ messages' = << >>
                    /\ last_message_time' = "None"
               ELSE UNCHANGED <<session_file, last_message_time, stage,
                                current_booking_data, messages>>
    /\ UNCHANGED <<async_cache, response, outbox, booking_calls, turns, failed_calls>>
    /\ UNCHANGED <<availVars, llmVars, isoVars, cacheVars, svcVars>>

\* ConversationService.delete_conversation for a stored session: the entry
\* of _conversations and the session file are removed.  The call comes
\* from the event loop's thread, between two requests.
DeleteConversation ==
    /\ event_loop = 0
    /\ conversations = "present"
    /\ conversations' = "absent"
    /\ session_file' = -1
    /\ last_message_time' = "None"
    /\ UNCHANGED <<requests, event_loop>>
    /\ UNCHANGED <<agentVars, availVars, llmVars, isoVars, cacheVars, svcVars>>

\* POST /admin/cleanup, cleanup_old_sessions: a stored session with messages
\* whose last message carries a timestamp older than max_age_hours is
\* deleted as delete_conversation does; a last message without timestamp
\* (as process_message appends them) or a recent one keeps the session.
CleanupSessions ==
    /\ event_loop = 0
    /\ IF conversations = "present" /\ messages # << >>
          /\ last_message_time = "old"
       THEN /\ conversations' = "absent"
            /\ session_file' = -1
            /\ last_message_time' = "None"
       ELSE UNCHANGED <<conversations, session_file, last_message_time>>
    /\ UNCHANGED <<requests, event_loop>>
    /\ UNCHANGED <<agentVars, availVars, llmVars, isoVars, cacheVars, svcVars>>

\* response = booking_agent.process_message(state, user_message)
SendMessageProcess(r, attempts, expired, email_sent) ==
    /\ requests[r].pc = "got"
    /\ CanRun(r)
    /\ Relevant(requests[r].message, expired, email_sent)
    /\ attempts # << "ok" >> => failed_calls < MaxFailedCalls
    /\ RaisesAtExtraction(attempts) =>
          DOMAIN CacheGet(async_cache, requests[r].message, expired) = {}
    /\ failed_calls' = (IF attempts = << "ok" >> THEN failed_calls
                        ELSE failed_calls + 1)
    /\ Commit(process_message(Current, turns + 1, requests[r].message,
                              attempts, expired, email_sent))
    /\ requests' = [requests EXCEPT ![r].pc = "processed"]
    /\ event_loop' = RunningAfter(r, "processed")
    /\ last_message_time' = "None"
    /\ UNCHANGED <<conversations, session_file, availVars, llmVars, isoVars, cacheVars, svcVars>>

\* conversation_service.store_conversation(session_id, state), and return
SendMessageStore(r) ==
    /\ requests[r].pc = "processed"
    /\ CanRun(r)
    /\ conversations' = "present"
    /\ session_file' = Len(messages)
    /\ requests' = [requests EXCEPT ![r].pc = "done"]
    /\ event_loop' = RunningAfter(r, "done")
    /\ UNCHANGED last_message_time
    /\ UNCHANGED <<agentVars, availVars, llmVars, isoVars, cacheVars, svcVars>>

\* ------------------------------------------------------------------------
\* BookingAgent of booking-agent/backend/app/services/agent_service.py.
\* The language model and the entity extractor are external services: the
\* text the model returns, whether the call fails, and the entities the
\* extractor returns are inputs of a turn.
\* ------------------------------------------------------------------------
LLMMsgs == {"hello", "book a meeting", "yes", "no, change it"}

\* `word in message.lower()`: the listed words that occur as substrings.
SubstringsOf(m) ==
    CASE m = "hello" -> {}
      [] m = "book a meeting" -> {"book", "meeting", "ok"}
      [] m = "yes" -> {"yes"}
      [] m = "no, change it" -> {"no", "change"}
      [] OTHER -> {}

greeting_words == {"book", "meeting", "schedule", "appointment"}
positive_words == {"yes", "correct", "right", "confirm", "ok", "okay", "sure",
                   "proceed", "book", "perfect", "great", "sounds good"}
negative_words == {"no", "not", "wrong", "incorrect", "change", "modify",
                   "different", "cancel"}

is_confirmation_positive(m) ==
    IF SubstringsOf(m) \cap negative_words # {} THEN FALSE
    ELSE SubstringsOf(m) \cap positive_words # {}

\* What llm_service.extract_entities does on a call: raise, or return a dict.
\* Durations are written as the text the extractor returned.
Extraction(ok, entities) == [ok |-> ok, entities |-> entities]
Extractions ==
    { Extraction(FALSE, EmptyDict),
      Extraction(TRUE, EmptyDict),
      Extraction(TRUE, [k \in {"date"} |-> "next week"]),
      Extraction(TRUE, [k \in {"date", "time"} |->
                          IF k = "date" THEN "2024-06-10" ELSE "9:5"]),
      Extraction(TRUE, [k \in {"duration", "purpose"} |->
                          IF k = "duration" THEN "30" ELSE ""]),
      Extraction(TRUE, [k \in {"date", "time", "duration"} |->
                          CASE k = "date" -> "2024-06-10"
                            [] k = "time" -> "14:00"
                            [] OTHER -> "0"]) }

\* datetime.strptime(value, '%Y-%m-%d') succeeds
IsIsoDate(v) == v \in {"2024-06-10"}
\* f"{int(hour):02d}:{int(minute):02d}"
CleanTime(v) ==
    CASE v = "9:5" -> "09:05"
      [] v = "14:00" -> "14:00"
      [] OTHER -> v
\* int(value) succeeds
IsIntText(v) == v \in {"0", "30"}

KeptKeys(entities) ==
    { k \in DOMAIN entities :
        /\ entities[k] # None
        /\ entities[k] # ""
        /\ k = "date" => IsIsoDate(entities[k])
        /\ k = "duration" => IsIntText(entities[k]) }

extract_booking_entities(extraction) ==
    IF ~extraction.ok THEN EmptyDict
    ELSE [k \in KeptKeys(extraction.entities) |->
            IF k = "time" THEN CleanTime(extraction.entities[k])
            ELSE extraction.entities[k]]

\* truthiness of a stored field: 0 and the empty string are false
Truthy(v) == v \notin {None, "", "0"}

has_any_booking_info(booking_data) ==
    \E field \in {"date", "time", "duration"} :
        Has(booking_data, field) /\ Truthy(booking_data[field])

has_complete_booking_info(booking_data) ==
    \A field \in {"date", "time", "duration"} :
        Has(booking_data, field) /\ Truthy(booking_data[field])

\* dict.update
Update(d, e) ==
    [k \in (DOMAIN d) \cup (DOMAIN e) |-> IF k \in DOMAIN e THEN e[k] ELSE d[k]]

\* calendar_service.create_event takes (title, start_time, end_time,
\* description), and _create_booking passes it the draft alone: with a calendar
\* service the call raises and the booking fails; without one it is a mock
\* success.
create_booking(calendar) ==
    IF calendar = "service"
    THEN [success |-> FALSE, called |-> TRUE, made |-> TRUE]
    ELSE [success |-> TRUE, called |-> FALSE, made |-> TRUE]

\* The dict a turn returns, with the state as the callee left it.  A draft
\* that is None is written as the empty dict: the code never stores an empty
\* dict and tests the draft by truthiness only.
Reply(message, stg, booking_data, requires_confirmation) ==
    [message |-> message, stage |-> stg, booking_data |-> booking_data,
     requires_confirmation |-> requires_confirmation]

StageResult(stg, booking_data, booking_result, reply) ==
    [stage |-> stg, booking_data |-> booking_data,
     booking_result |-> booking_result, reply |-> reply]

NotCalled == [success |-> FALSE, called |-> FALSE, made |-> FALSE]

after_create_booking_stays_confirming(data, booking_result) ==
    IF booking_result.success
    THEN StageResult("completed", data, booking_result,
             Reply("booking_confirmed", "completed", data, FALSE))
    ELSE StageResult("confirming", data, booking_result,
             Reply("sorry_booking_failed", "confirming", data, TRUE))

\* the two branches on booking_result.get("success") of the confirming stage
after_create_booking(data, booking_result) ==
    IF booking_result.success
    THEN StageResult("completed", data, booking_result,
             Reply("booking_confirmed", "completed", data, FALSE))
    ELSE StageResult("error", data, booking_result,
             Reply("sorry_booking_failed", "error", data, FALSE))

process_stage_response(stg, data, calendar, m, extraction) ==
    IF stg = "collecting_info"
    THEN LET entities == extract_booking_entities(extraction)
             updated == Update(data, entities)
         IN  IF entities # EmptyDict
             THEN IF has_complete_booking_info(updated)
                  THEN StageResult("confirming", updated, NotCalled,
                           Reply("confirm_summary", "confirming", updated, TRUE))
                  ELSE StageResult(stg, updated, NotCalled,
                           Reply("thanks_missing_info", "collecting_info",
                                 updated, FALSE))
             ELSE StageResult(stg, data, NotCalled,
                      Reply("missing_info", "collecting_info", data, FALSE))
    ELSE IF stg = "confirming"
    THEN IF is_confirmation_positive(m)
         THEN after_create_booking(data, create_booking(calendar))
         ELSE StageResult("collecting_info", data, NotCalled,
                  Reply("modify_details", "collecting_info", data, FALSE))
    ELSE IF stg = "greeting" /\ SubstringsOf(m) \cap greeting_words # {}
    THEN StageResult("collecting_info", data, NotCalled,
             Reply("ask_date_time_duration", "collecting_info", data, FALSE))
    ELSE StageResult(stg, data, NotCalled, Reply("llm_text", stg, data, FALSE))

generate_response(stg, data, calendar, m, llm_ok, extraction) ==
    LET current == IF stg \in {"", "initial"} THEN "greeting" ELSE stg
    IN  IF llm_ok
        THEN process_stage_response(current, data, calendar, m, extraction)
        ELSE StageResult(current, data, NotCalled,
                 Reply("llm_trouble", "error", data, FALSE))

LLMInit ==
    /\ llm_calendar \in {"service", "none"}
    /\ llm_stage = "initial"
    /\ llm_booking_data = EmptyDict
    /\ llm_messages = << >>
    /\ llm_reply = Reply("", "initial", EmptyDict, FALSE)
    /\ llm_create_calls = 0
    /\ llm_booking_result = NotCalled
    /\ llm_turns = 0

LLMIdle ==
    /\ llm_calendar = "none"
    /\ llm_stage = "initial"
    /\ llm_booking_data = EmptyDict
    /\ llm_messages = << >>
    /\ llm_reply = Reply("", "initial", EmptyDict, FALSE)
    /\ llm_create_calls = 0
    /\ llm_booking_result = NotCalled
    /\ llm_turns = 0

\* BookingAgent.process_message(state, user_message)
LLMProcessMessage(m, llm_ok, extraction) ==
    /\ llm_turns < MaxTurns
    /\ LET response_data == generate_response(llm_stage, llm_booking_data,
                                              llm_calendar, m, llm_ok, extraction)
       IN  /\ llm_messages' = llm_messages \o
                 << Msg("user", m), Msg("assistant", response_data.reply.message) >>
           /\ llm_stage' = response_data.reply.stage
           /\ llm_booking_data' =
                 IF response_data.reply.booking_data # EmptyDict
                 THEN response_data.reply.booking_data
                 ELSE response_data.booking_data
           /\ llm_reply' = response_data.reply
           /\ llm_booking_result' = response_data.booking_result
           /\ llm_create_calls' =
                 llm_create_calls + (IF response_data.booking_result.called THEN 1 ELSE 0)
    /\ llm_turns' = llm_turns + 1
    /\ UNCHANGED <<llm_calendar, availVars, agentVars, apiVars, isoVars, cacheVars, svcVars>>

\* ------------------------------------------------------------------------
\* AdvancedCircuitBreaker (booking-agent/backend/app/services/llm_service.py).
\* Time is counted in whole seconds from 1; last_failure_time 0 stands for
\* None.
\* ------------------------------------------------------------------------
MaxCalls == 4
FailureThresholds == {1, 2}
BreakerTimeouts == {0, 1}
SuccessThreshold == 2

\* the threads that share the breaker
Callers == {"A", "B"}

\* AdvancedCircuitBreaker.__init__; `callers` tells where each thread is in
\* call(): outside ("idle"), past the first locked block with func running
\* ("running"), or with func ended and the second locked block ahead
\* ("returned", "raised"); `calls` lists how the calls of the wrapped
\* function ended, `last` how the last call() ended
Breaker(failure_threshold, timeout) ==
    [state |-> "CLOSED", failure_count |-> 0, success_count |-> 0,
     last_failure_time |-> 0, failure_threshold |-> failure_threshold,
     timeout |-> timeout, success_threshold |-> SuccessThreshold,
     now |-> 1, callers |-> [c \in Callers |-> "idle"],
     calls |-> << >>, last |-> "none"]

BreakerInit ==
    \E failure_threshold \in FailureThresholds, timeout \in BreakerTimeouts :
        breaker = Breaker(failure_threshold, timeout)

BreakerIdle == breaker = Breaker(1, 0)

\* the first block of call(): an OPEN breaker becomes HALF_OPEN once more
\* than `timeout` seconds have passed since the last failure
Refuses(b) ==
    /\ b.state = "OPEN"
    /\ ~(b.last_failure_time # 0 /\ b.now - b.last_failure_time > b.timeout)

AfterOpenCheck(b) ==
    IF b.state = "OPEN" /\ ~Refuses(b) THEN [b EXCEPT !.state = "HALF_OPEN"] ELSE b

\* the wrapped function returned
AfterSuccess(b) ==
    IF b.state = "HALF_OPEN"
    THEN IF b.success_count + 1 >= b.success_threshold
         THEN [b EXCEPT !.state = "CLOSED", !.failure_count = 0, !.success_count = 0]
         ELSE [b EXCEPT !.success_count = @ + 1]
    ELSE b

\* the wrapped function raised
AfterFailure(b) ==
    LET b1 == [b EXCEPT !.failure_count = @ + 1, !.last_failure_time = b.now]
    IN  IF b1.failure_count >= b1.failure_threshold
        THEN [b1 EXCEPT !.state = "OPEN"] ELSE b1

\* the calls of the wrapped function that have begun
InvokedCalls(b) ==
    Len(b.calls) + Cardinality({ c \in Callers : b.callers[c] = "running" })

\* AdvancedCircuitBreaker.call(func), the first block under self._lock: an
\* OPEN breaker within its timeout raises; otherwise the lock is released
\* and func is called
BreakerCallEnter(c) ==
    /\ breaker.callers[c] = "idle"
    /\ InvokedCalls(breaker) < MaxCalls
    /\ breaker' =
         IF Refuses(breaker) THEN [breaker EXCEPT !.last = "refused"]
         ELSE [AfterOpenCheck(breaker) EXCEPT !.callers[c] = "running"]
    /\ UNCHANGED generation
    /\ UNCHANGED <<availVars, agentVars, apiVars, llmVars, isoVars, cacheVars>>

\* func(*args, **kwargs) ends, outside the lock; func_ok: it returns
BreakerFuncEnds(c, func_ok) ==
    /\ breaker.callers[c] = "running"
    /\ breaker' =
         [breaker EXCEPT !.callers[c] = IF func_ok THEN "returned" ELSE "raised",
                         !.calls = Append(@, IF func_ok THEN "ok" ELSE "fail")]
    /\ UNCHANGED generation
    /\ UNCHANGED <<availVars, agentVars, apiVars, llmVars, isoVars, cacheVars>>

\* the block under self._lock after func: the bookkeeping of a success or
\* of a failure, then call() returns the result or raises the exception
BreakerCallExit(c) ==
    /\ breaker.callers[c] \in {"returned", "raised"}
    /\ breaker' =
         IF breaker.callers[c] = "returned"
         THEN [AfterSuccess(breaker) EXCEPT !.callers[c] = "idle",
                                            !.last = "returned"]
         ELSE [AfterFailure(breaker) EXCEPT !.callers[c] = "idle",
                                            !.last = "raised"]
    /\ UNCHANGED generation
    /\ UNCHANGED <<availVars, agentVars, apiVars, llmVars, isoVars, cacheVars>>

\* a second passes
BreakerTick ==
    /\ breaker.now < MaxClock
    /\ breaker' = [breaker EXCEPT !.now = @ + 1]
    /\ UNCHANGED generation
    /\ UNCHANGED <<availVars, agentVars, apiVars, llmVars, isoVars, cacheVars>>

\* ------------------------------------------------------------------------
\* LLMService.generate, for one request: its cache entry and the retry loop
\* ------------------------------------------------------------------------
MaxProviderCalls == 4
RetryChoices == {0, 1, 2}

\* responses are numbered by the provider call that produced them; 0: none
Generation(cached, total, pc, retries, use_cache, attempt, result, resp) ==
    [cached |-> cached, provider_calls |-> total, pc |-> pc, retries |-> retries,
     use_cache |-> use_cache, attempt |-> attempt, result |-> result,
     response |-> resp]

GenerationIdle == generation = Generation(0, 0, "idle", 0, FALSE, 0, "none", 0)

\* generate up to the retry loop: a cache hit is returned at once; a loop
\* over range(retries) with retries = 0 has no pass and the method falls
\* off its end, returning None
GenerateEnter(retries, use_cache) ==
    /\ generation.pc = "idle"
    /\ generation.provider_calls < MaxProviderCalls
    /\ generation' =
         LET g == [generation EXCEPT !.retries = retries, !.use_cache = use_cache,
                                     !.attempt = 0]
         IN  IF use_cache /\ g.cached # 0
             THEN [g EXCEPT !.result = "cached", !.response = g.cached]
             ELSE IF retries = 0
             THEN [g EXCEPT !.result = "None", !.response = 0]
             ELSE [g EXCEPT !.pc = "trying", !.result = "none", !.response = 0]
    /\ UNCHANGED breaker
    /\ UNCHANGED <<availVars, agentVars, apiVars, llmVars, isoVars, cacheVars>>

\* one pass of the retry loop
ProviderAttempt(ok) ==
    /\ generation.pc = "trying"
    /\ generation' =
         LET g == [generation EXCEPT !.provider_calls = @ + 1]
         IN  IF ok
             THEN [g EXCEPT !.pc = "idle", !.result = "response",
                            !.response = g.provider_calls,
                            !.cached = IF g.use_cache THEN g.provider_calls ELSE @]
             ELSE IF g.attempt = g.retries - 1
             THEN [g EXCEPT !.pc = "idle", !.result = "raised"]
             ELSE [g EXCEPT !.attempt = @ + 1]
    /\ UNCHANGED breaker
    /\ UNCHANGED <<availVars, agentVars, apiVars, llmVars, isoVars, cacheVars>>

\* LLMService.generate_async up to the await: a cache hit is returned at
\* once; otherwise the provider's generate_async, which every provider
\* inherits from LLMProviderBase, is awaited.  request.retries is not read.
GenerateAsyncEnter(retries, use_cache) ==
    /\ generation.pc = "idle"
    /\ generation.provider_calls < MaxProviderCalls
    /\ generation' =
         LET g == [generation EXCEPT !.retries = retries, !.use_cache = use_cache,
                                     !.attempt = 0]
         IN  IF use_cache /\ g.cached # 0
             THEN [g EXCEPT !.result = "cached", !.response = g.cached]
             ELSE [g EXCEPT !.pc = "awaiting", !.result = "none", !.response = 0]
    /\ UNCHANGED breaker
    /\ UNCHANGED <<availVars, agentVars, apiVars, llmVars, isoVars, cacheVars>>

\* the awaited provider call ends: its response is returned without being
\* stored in the cache, its exception is raised without another attempt
ProviderAsyncEnds(ok) ==
    /\ generation.pc = "awaiting"
    /\ generation' =
         LET g == [generation EXCEPT !.provider_calls = @ + 1, !.pc = "idle"]
         IN  IF ok
             THEN [g EXCEPT !.result = "response", !.response = g.provider_calls]
             ELSE [g EXCEPT !.result = "raised"]
    /\ UNCHANGED breaker
    /\ UNCHANGED <<availVars, agentVars, apiVars, llmVars, isoVars, cacheVars>>

\* LLMCache drops the entry when its ttl is over
CacheEntryExpires ==
    /\ generation.pc = "idle"
    /\ generation.cached # 0
    /\ generation' = [generation EXCEPT !.cached = 0]
    /\ UNCHANGED breaker
    /\ UNCHANGED <<availVars, agentVars, apiVars, llmVars, isoVars, cacheVars>>

SvcIdle == BreakerIdle /\ GenerationIdle

\* ------------------------------------------------------------------------
\* AsyncTTLCache.  Time is counted in whole seconds.
\* ------------------------------------------------------------------------
CacheKeys == {"k1", "k2"}
CacheValues == {"v1", "v2"}
TtlChoices == {0, 2}

Entry(value, timestamp) == [value |-> value, timestamp |-> timestamp]

TtlCache(entries, ttl, now, op, returned) ==
    [cache |-> entries, ttl |-> ttl, now |-> now, op |-> op, key |-> None,
     returned |-> returned]

\* AsyncTTLCache(ttl_seconds)
CacheInit == \E ttl \in TtlChoices : ttl_cache = TtlCache(EmptyDict, ttl, 0, "init", None)

CacheIdle == ttl_cache = TtlCache(EmptyDict, 0, 0, "init", None)

Without(entries, keys) == [k \in (DOMAIN entries) \ keys |-> entries[k]]

\* AsyncTTLCache.get
TtlGet(key) ==
    /\ ttl_cache' =
         IF key \in DOMAIN ttl_cache.cache
         THEN IF ttl_cache.now - ttl_cache.cache[key].timestamp < ttl_cache.ttl
              THEN [ttl_cache EXCEPT !.op = "get", !.key = key,
                                     !.returned = ttl_cache.cache[key].value]
              ELSE [ttl_cache EXCEPT !.op = "get", !.key = key, !.returned = None,
                                     !.cache = Without(@, {key})]
         ELSE [ttl_cache EXCEPT !.op = "get", !.key = key, !.returned = None]
    /\ UNCHANGED <<availVars, agentVars, apiVars, llmVars, isoVars, svcVars>>

\* AsyncTTLCache.set
TtlSet(key, value) ==
    /\ ttl_cache' = [ttl_cache EXCEPT !.op = "set", !.key = key, !.returned = None,
                                      !.cache = Put(@, key, Entry(value, ttl_cache.now))]
    /\ UNCHANGED <<availVars, agentVars, apiVars, llmVars, isoVars, svcVars>>

\* AsyncTTLCache.clear_expired
TtlClearExpired ==
    /\ LET expired == { k \in DOMAIN ttl_cache.cache :
                          ttl_cache.now - ttl_cache.cache[k].timestamp > ttl_cache.ttl }
       IN  ttl_cache' = [ttl_cache EXCEPT !.op = "clear_expired", !.key = None,
                                          !.returned = None,
                                          !.cache = Without(@, expired)]
    /\ UNCHANGED <<availVars, agentVars, apiVars, llmVars, isoVars, svcVars>>

\* a second passes
ClockTick ==
    /\ ttl_cache.now < MaxClock
    /\ ttl_cache' = [ttl_cache EXCEPT !.op = "tick", !.key = None, !.returned = None,
                                    !.now = @ + 1]
    /\ UNCHANGED <<availVars, agentVars, apiVars, llmVars, isoVars, svcVars>>

\* ------------------------------------------------------------------------
\* Two sessions on one BookingAgent.  The agent's entity cache, its mailbox
\* and the last response are shared; each ConversationState is an object of
\* its own.
\* ------------------------------------------------------------------------
SessionIds == {"A", "B"}

\* messages of the two sessions; the last is a request outside every bound
\* of the booking rules: 23:00, for five hours
SessionMsgs ==
    {"Book now", "therapy please",
     "I need a consultation tomorrow at 2pm for 90 minutes",
     "workshop at 11pm for 300 minutes"}
OtherSession(id) == IF id = "A" THEN "B" ELSE "A"

class_level_defaults(id) == "ConversationState"

\* the list and the dict a new ConversationState holds: pydantic copies the
\* field defaults [] and {} for every instance
field_defaults(id) == id

SessionState(stg, data, msgs) == [stage |-> stg, data |-> data, messages |-> msgs]

PeerIdle ==
    /\ peer = SessionState("greeting", EmptyDict, << >>)
    /\ last_session = "none"

StateOf(id) ==
    IF id = "A" THEN SessionState(stage, current_booking_data, messages) ELSE peer

\* the state of a session after a turn of session `id` that ended in s
AfterTurn(target, id, s) ==
    IF target = id THEN SessionState(s.stage, s.data, s.messages)
    ELSE IF field_defaults(target) = field_defaults(id)
    THEN SessionState(StateOf(target).stage, s.data, s.messages)
    ELSE StateOf(target)

\* booking_agent.process_message(state, user_message) with the state of
\* session id
SessionTurn(id, m, attempts, expired, email_sent) ==
    /\ turns < MaxSessionTurns
    /\ expired => m \in DOMAIN async_cache
    /\ email_sent # "sent" => StateOf(id).stage = "confirming"
    /\ attempts # << "ok" >> => failed_calls < MaxFailedCalls
    /\ RaisesAtExtraction(attempts) =>
          DOMAIN CacheGet(async_cache, m, expired) = {}
    /\ LET before == StateOf(id)
           s == process_message(
                    Session(before.stage, before.data, before.messages,
                            async_cache, outbox, response),
                    turns + 1, m, attempts, expired, email_sent)
           a == AfterTurn("A", id, s)
       IN  /\ stage' = a.stage
           /\ current_booking_data' = a.data
           /\ messages' = a.messages
           /\ peer' = AfterTurn("B", id, s)
           /\ async_cache' = s.cache
           /\ outbox' = s.outbox
           /\ response' = s.response
    /\ failed_calls' = (IF attempts = << "ok" >> THEN failed_calls
                        ELSE failed_calls + 1)
    /\ turns' = turns + 1
    /\ last_session' = id
    /\ UNCHANGED <<booking_calls, availVars, apiVars, llmVars, cacheVars, svcVars>>

InitIso == AgentInit /\ AvailIdle /\ ApiIdle /\ LLMIdle /\ PeerIdle /\ CacheIdle /\ SvcIdle
NextIso ==
    \E id \in SessionIds, m \in SessionMsgs,
       attempts \in {<< "ok" >>} \cup FailedAttempts,
       expired \in BOOLEAN, email_sent \in NotifyOutcomes :
        SessionTurn(id, m, attempts, expired, email_sent)
SpecIso == InitIso /\ [][NextIso]_vars

InitApi ==
    /\ \E history \in LoadedHistories : AgentStart(history)
    /\ AvailIdle /\ ApiInit /\ LLMIdle /\ PeerIdle /\ CacheIdle /\ SvcIdle
NextApi ==
    \/ \E r \in Requests, m \in RequestMessages : SendMessageEnter(r, m)
    \/ \E r \in Requests, attempts \in {<< "ok" >>} \cup FailedAttempts,
          expired \in BOOLEAN, email_sent \in NotifyOutcomes :
          SendMessageProcess(r, attempts, expired, email_sent)
    \/ \E r \in Requests : SendMessageStore(r)
    \/ DeleteConversation
    \/ CleanupSessions
SpecConc == InitApi /\ [][NextApi]_vars

Init == AgentInit /\ AvailIdle /\ ApiIdle /\ LLMIdle /\ PeerIdle /\ CacheIdle /\ SvcIdle
Next ==
    \/ \E m \in Msgs, expired \in BOOLEAN, email_sent \in NotifyOutcomes :
          ProcessMessage(m, expired, email_sent)
    \/ \E m \in Msgs, attempts \in FailedAttempts \cup RetriedAttempts,
          expired \in BOOLEAN, email_sent \in NotifyOutcomes :
          ProcessMessageFallback(m, attempts, expired, email_sent)
    \/ \E aged \in SUBSET DOMAIN async_cache : OptimizePerformance(aged)
Spec == Init /\ [][Next]_vars

InitAvail == AvailInit /\ AgentInit /\ ApiIdle /\ LLMIdle /\ PeerIdle /\ CacheIdle /\ SvcIdle
SpecAvail == InitAvail /\ [][AvailNext]_vars

\* a session whose stored stage is none of the stages the agent knows:
\* ConversationState.stage is a plain str, and ConversationState(stage=...)
\* accepts any value
StoredStages == {"paused", ""}
InitStage ==
    /\ stage \in StoredStages
    /\ current_booking_data = EmptyDict
    /\ messages = << >>
    /\ async_cache = EmptyDict
    /\ response = NoResponse
    /\ outbox = << >>
    /\ booking_calls = 0
    /\ turns = 0
    /\ failed_calls = 0
    /\ AvailIdle /\ ApiIdle /\ LLMIdle /\ PeerIdle /\ CacheIdle /\ SvcIdle
SpecStage == InitStage /\ [][Next]_vars

InitCache ==
    CacheInit /\ AgentInit /\ AvailIdle /\ ApiIdle /\ LLMIdle /\ PeerIdle /\ SvcIdle
NextCache ==
    \/ \E key \in CacheKeys : TtlGet(key)
    \/ \E key \in CacheKeys, value \in CacheValues : TtlSet(key, value)
    \/ TtlClearExpired
    \/ ClockTick
SpecCache == InitCache /\ [][NextCache]_vars

\* the scans of get_free_slots over a calendar that already holds events:
\* the free/busy query reports them in no particular order, overlapping,
\* nested or twice
MaxBusy == 3
BusyLists == UNION { [1..n -> TimedEvents] : n \in 0..MaxBusy }
InitScan ==
    /\ calendar_mode = "real"
    /\ busy_times \in BusyLists
    /\ events_created = 0
    /\ avail = NoResult
    /\ booked = {}
    /\ AgentInit /\ ApiIdle /\ LLMIdle /\ PeerIdle /\ CacheIdle /\ SvcIdle
NextScan ==
    \E s \in QueryStarts, e \in QueryEnds, d \in Durations, ok \in BOOLEAN :
        GetFreeSlots(s, e, d, ok)
SpecScan == InitScan /\ [][NextScan]_vars

\* a user who answers what each stage asks for (a booking cue in greeting,
\* a service type in collecting_info, an email address in
\* collecting_email) while every external call returns: the async path
\* handles each turn and the email call returns True or False
Answers(stg) ==
    CASE stg = "greeting" ->
             { m \in Msgs : \/ Get(extract_entities_regex(m), "intent") = "booking"
                            \/ ContainsAny(m, greeting_cues) }
      [] stg = "collecting_info" ->
             { m \in Msgs : Has(extract_entities_regex(m), "service_type") }
      [] stg = "collecting_email" -> { m \in Msgs : EmailIn(m) # None }
      [] OTHER -> Msgs
UserAnswers(m, expired, email_sent) ==
    /\ m \in Answers(stage)
    /\ ProcessMessage(m, expired, email_sent)
NextProgress ==
    \E m \in Msgs, expired \in BOOLEAN, email_sent \in {"sent", "failed"} :
        UserAnswers(m, expired, email_sent)
\* the user sends the next message: every step is a turn, and a turn is
\* possible exactly while the bound on turns is not reached
TurnTaken == turns < MaxTurns /\ turns' = turns + 1
SpecProgress == Init /\ [][NextProgress]_vars /\ WF_turns(TurnTaken)

InitBreaker ==
    BreakerInit /\ GenerationIdle
    /\ AgentInit /\ AvailIdle /\ ApiIdle /\ LLMIdle /\ PeerIdle /\ CacheIdle
NextBreaker ==
    \/ \E c \in Callers : BreakerCallEnter(c)
    \/ \E c \in Callers, func_ok \in BOOLEAN : BreakerFuncEnds(c, func_ok)
    \/ \E c \in Callers : BreakerCallExit(c)
    \/ BreakerTick
SpecBreaker == InitBreaker /\ [][NextBreaker]_vars

InitGenerate ==
    GenerationIdle /\ BreakerIdle
    /\ AgentInit /\ AvailIdle /\ ApiIdle /\ LLMIdle /\ PeerIdle /\ CacheIdle
NextGenerate ==
    \/ \E retries \in RetryChoices, use_cache \in BOOLEAN :
          GenerateEnter(retries, use_cache)
    \/ \E ok \in BOOLEAN : ProviderAttempt(ok)
    \/ \E retries \in RetryChoices, use_cache \in BOOLEAN :
          GenerateAsyncEnter(retries, use_cache)
    \/ \E ok \in BOOLEAN : ProviderAsyncEnds(ok)
    \/ CacheEntryExpires
SpecGenerate == InitGenerate /\ [][NextGenerate]_vars

InitLLM == LLMInit /\ AgentInit /\ AvailIdle /\ ApiIdle /\ PeerIdle /\ CacheIdle /\ SvcIdle
NextLLM ==
    \E m \in LLMMsgs, llm_ok \in BOOLEAN, extraction \in Extractions :
        LLMProcessMessage(m, llm_ok, extraction)
SpecLLM == InitLLM /\ [][NextLLM]_vars

\* ------------------------------------------------------------------------
\* C1
\* ------------------------------------------------------------------------
SlotClear(s, b) == s.end <= b.start \/ s.start >= b.end

\* C1: no slot returned by an availability computation overlaps a busy
\* interval of the calendar it was computed for: for every returned slot s
\* and every busy interval b, s.end <= b.start or s.start >= b.end.
C1_NoReturnedSlotOverlapsBusy ==
    avail.status = "ok" =>
        \A i \in 1..Len(avail.slots), j \in 1..Len(avail.busy) :
            SlotClear(avail.slots[i], avail.busy[j])

\* ------------------------------------------------------------------------
\* BookingAgent: history, completion, draft (C2, C3, C4, C5, C7)
\* ------------------------------------------------------------------------
\* a step that is a process_message call
TurnStep == turns' = turns + 1

\* a step that is one process_message call on message m, on either path
TurnOn(m) ==
    \/ \E expired \in BOOLEAN, email_sent \in NotifyOutcomes :
          ProcessMessage(m, expired, email_sent)
    \/ \E attempts \in FailedAttempts \cup RetriedAttempts,
          expired \in BOOLEAN, email_sent \in NotifyOutcomes :
          ProcessMessageFallback(m, attempts, expired, email_sent)

\* C2: after N process_message calls on a session that started with an
\* empty history, the history is exactly user(1), assistant(1), ...,
\* user(N), assistant(N): length 2*N, roles alternating from user, also
\* when a call took the fallback path.
C2_HistoryIsUserAssistantPairs ==
    /\ Len(messages) = 2 * turns
    /\ \A k \in 1..turns :
          /\ messages[2 * k - 1] = Msg("user", k)
          /\ messages[2 * k] = Msg("assistant", k)

\* C3: stage completed is absorbing: every process_message call made in
\* stage completed, whatever the message, leaves the stage at completed and
\* answers with the static closing reply.
C3_CompletedIsAbsorbing ==
    [][(stage = "completed" /\ TurnStep) =>
          /\ stage' = "completed"
          /\ response'.message = "closing"
          /\ response'.booking_data = NoData]_vars

\* a call was made in stage completed and answered
C3_Witness ==
    /\ stage = "completed"
    /\ response.message = "closing"
    /\ turns >= 2

\* the fields of the draft that identify the booking
BookingIdentity(data) ==
    [k \in {"service_type", "date", "time", "duration", "user_email",
            "confirmation_number"} |-> Get(data, k)]

\* C4: once the booking is final (stage completed), no later
\* process_message call changes service_type, date, time, duration, contact
\* email or confirmation number of the session draft.
C4_FinalDraftIsFrozen ==
    [][stage = "completed" =>
          BookingIdentity(current_booking_data') =
              BookingIdentity(current_booking_data)]_vars

\* C5: the calendar booking call is made exactly once in the life of a
\* session, during the turn from confirming to completed: a session that
\* reached completed has made one call, any other session none.
C5_OneBookingCallAtCompletion ==
    booking_calls = (IF stage = "completed" THEN 1 ELSE 0)

\* C7: a turn is atomic: a process_message call, failing part-way or not,
\* leaves either the state before the turn or the state of one whole turn,
\* whose history is the old one plus one user and one assistant entry.
C7_TurnIsAllOrNothing ==
    [][TurnStep =>
          messages' = messages \o << Msg("user", turns + 1),
                                     Msg("assistant", turns + 1) >>]_vars

\* ------------------------------------------------------------------------
\* BookingAgent: greeting and collecting_info (C8, C9, C10)
\* ------------------------------------------------------------------------
\* the extractor labels the message as booking, or it holds a booking cue
HasBookingSignal(m) ==
    \/ Get(extract_entities_regex(m), "intent") = "booking"
    \/ ContainsAny(m, greeting_cues)

\* C8: in stage greeting a turn on a message with a booking-intent signal
\* moves the session to collecting_info or further, and a turn on a message
\* without one leaves the stage at greeting.
C8_GreetingLeavesOnIntentOnly ==
    [][\A m \in Msgs :
          (stage = "greeting" /\ TurnOn(m)) =>
              IF HasBookingSignal(m)
              THEN stage' \in {"collecting_info", "showing_slots"}
              ELSE stage' = "greeting"]_vars

\* the first turn, on a message with a signal, has left greeting
C8_Witness ==
    /\ turns = 1
    /\ stage = "collecting_info"
    /\ response.message = "ask_service"

\* C9: in stage greeting, a turn on a message with booking intent for which
\* the extractor returns service_type, date and time ends in showing_slots,
\* and the draft holds the extracted service_type, date and time.
C9_GreetingSkipsToSlots ==
    [][\A m \in Msgs :
          (/\ stage = "greeting"
           /\ TurnOn(m)
           /\ HasBookingSignal(m)
           /\ {"service_type", "date", "time"} \subseteq
                  DOMAIN extract_entities_regex(m)) =>
              /\ stage' = "showing_slots"
              /\ \A k \in {"service_type", "date", "time"} :
                    Get(current_booking_data', k) = extract_entities_regex(m)[k]]_vars

\* the first turn went from greeting to showing_slots with a full draft
C9_Witness ==
    /\ turns = 1
    /\ stage = "showing_slots"
    /\ Get(current_booking_data, "service_type") = "consultation"
    /\ Get(current_booking_data, "date") = "now+1d"
    /\ Get(current_booking_data, "time") = "2pm"

\* C10: in stage collecting_info, a turn after which the draft has no
\* service_type leaves the stage at collecting_info, and a turn after which
\* it has one moves the stage to showing_slots.
C10_InfoCollectionWaitsForService ==
    [][(stage = "collecting_info" /\ TurnStep) =>
          IF Has(current_booking_data', "service_type")
          THEN stage' = "showing_slots"
          ELSE stage' = "collecting_info"]_vars

\* a turn in collecting_info found the service and moved to showing_slots
C10_Witness ==
    /\ stage = "showing_slots"
    /\ response.message = "check_slots_tomorrow"
    /\ Has(current_booking_data, "service_type")

\* ------------------------------------------------------------------------
\* send_message: turns of one session (C6)
\* ------------------------------------------------------------------------
\* C6: no two turns of one session run concurrently: while a request is
\* between reading the session and storing it, every other request has not
\* started or has returned, and when it reads the session, the effects of
\* all earlier turns are applied and stored.
C6_TurnsOfASessionAreSerialized ==
    \A r \in Requests :
        requests[r].pc \in {"got", "processed"} =>
            /\ \A q \in Requests \ {r} : requests[q].pc \in {"pending", "done"}
            /\ requests[r].pc = "got" => session_file = Len(messages)

\* of two requests submitted together, one has completed its turn and the
\* other has read the session after it
C6_Witness ==
    \E r, q \in Requests :
        /\ r # q
        /\ requests[r].pc = "done" /\ requests[r].message # ""
        /\ requests[q].pc = "got"
        /\ turns = 1 /\ session_file = Len(messages) /\ Len(messages) >= 2

\* ------------------------------------------------------------------------
\* BookingAgent: showing_slots, collecting_email, confirming (C11 .. C14)
\* ------------------------------------------------------------------------
\* C11: a turn in stage showing_slots ends in collecting_email when the
\* draft has no contact email and in confirming when it has one, and the
\* reply carries the offered slots in both cases.
C11_SlotsThenEmailOrConfirm ==
    [][(stage = "showing_slots" /\ TurnStep) =>
          /\ stage' = (IF Get(current_booking_data, "user_email") = None
                       THEN "collecting_email" ELSE "confirming")
          /\ response'.suggested_slots]_vars

\* C12: in stage collecting_email a message without an email address
\* leaves the stage at collecting_email and the draft's email unset, with
\* the invalid-email reply; a message with an address stores that address
\* in the draft and moves the stage to confirming.
C12_EmailIsParsedOrAskedAgain ==
    [][\A m \in Msgs :
          (stage = "collecting_email" /\ TurnOn(m)) =>
              IF EmailIn(m) = None
              THEN /\ stage' = "collecting_email"
                   /\ Get(current_booking_data', "user_email") = None
                   /\ response'.message = "invalid_email"
              ELSE /\ stage' = "confirming"
                   /\ Get(current_booking_data', "user_email") = EmailIn(m)]_vars

\* C13: the session draft holds a confirmation number exactly when the
\* booking is final: none in any stage before the confirming turn, and one
\* in the stored draft once the stage is completed.
C13_DraftHoldsConfirmationIffFinal ==
    Has(current_booking_data, "confirmation_number") <=> stage = "completed"

\* C14: a turn that starts in confirming ends in completed, with the same
\* finalized booking data, whether send_booking_confirmation returns True,
\* returns False or raises.
C14_NotifierNeverChangesOutcome ==
    [][(stage = "confirming" /\ TurnStep) =>
          /\ stage' = "completed"
          /\ response'.booking_data = ConfirmedBookingData(current_booking_data')
          /\ response'.message \in {"confirmed_email_sent",
                                    "confirmed_email_unavailable"}]_vars

\* a confirming turn whose email call raised has completed the booking
C14_Witness ==
    /\ stage = "completed"
    /\ response.message = "confirmed_email_unavailable"
    /\ Has(response.booking_data, "confirmation_number")
    /\ outbox = << >>

\* ------------------------------------------------------------------------
\* The failure stage of the booking-agent package (C15, C16)
\* ------------------------------------------------------------------------
LLMTurnOn(m) ==
    /\ llm_turns' = llm_turns + 1
    /\ llm_messages'[Len(llm_messages') - 1] = Msg("user", m)

FailedBooking(result) == result.made /\ ~result.success

\* C15: when the booking call fails during a turn in confirming, the stage
\* after the turn is the failure stage (neither completed nor confirming),
\* the draft holds no confirmation id, and the reply is the apology, which
\* carries no confirmation number.
C15_FailedBookingEndsInFailureStage ==
    [][(llm_stage = "confirming" /\ FailedBooking(llm_booking_result')) =>
          /\ llm_stage' = "error"
          /\ ~Has(llm_booking_data', "confirmation_id")
          /\ ~Has(llm_booking_data', "confirmation_number")
          /\ llm_reply'.message = "sorry_booking_failed"
          /\ ~Has(llm_reply'.booking_data, "confirmation_number")]_vars

C15_Witness ==
    /\ FailedBooking(llm_booking_result)
    /\ llm_stage = "error"
    /\ llm_reply.message = "sorry_booking_failed"
    /\ llm_create_calls = 1

\* C16: once a session is in the failure stage no turn moves it straight
\* back to confirming, and a message that restates booking intent moves it
\* out of the failure stage, to information gathering.
C16_RestatedIntentLeavesFailureStage ==
    [][llm_stage = "error" =>
          /\ llm_stage' # "confirming"
          /\ \A m \in LLMMsgs :
                (LLMTurnOn(m) /\ SubstringsOf(m) \cap greeting_words # {}) =>
                    llm_stage' = "collecting_info"]_vars

\* ------------------------------------------------------------------------
\* Extraction failures (C17)
\* ------------------------------------------------------------------------
\* a turn in which awaiting the extraction raised: the user message was
\* appended by the async path and once more by the fallback
ExtractionRaisedInTurn == Len(messages') >= Len(messages) + 3

\* C17: when entity extraction raises during a turn, process_message returns
\* what the stage handler produces for no entities on the draft as it was:
\* that stage, that draft and that reply.
C17_ExtractionFailureIsNoEntities ==
    [][\A m \in Msgs : (TurnOn(m) /\ ExtractionRaisedInTurn) =>
          \E email_sent \in NotifyOutcomes :
             LET h == conversation_stages(stage, current_booking_data, m,
                          EmptyDict,
                          get_context_suggestions(stage, current_booking_data),
                          email_sent)
             IN  /\ stage' = h.stage
                 /\ current_booking_data' = h.data
                 /\ response' = h.resp]_vars

\* ------------------------------------------------------------------------
\* Availability: failed queries, slot lengths, slot grid (C18, C19, C20)
\* ------------------------------------------------------------------------
\* C18: when the calendar query fails while slots are computed, the call
\* still returns normally and the slot list it returns is empty.
C18_FailedQueryGivesNoSlots ==
    avail.query_failed => (avail.status = "ok" /\ avail.slots = << >>)

\* C19: every slot an availability computation returns is exactly as long
\* as the requested duration, on every path that generates slots.
C19_SlotLengthIsRequestedDuration ==
    avail.status = "ok" =>
        \A i \in 1..Len(avail.slots) :
            avail.slots[i].end - avail.slots[i].start = avail.duration

C19_Witness ==
    /\ avail.status = "ok"
    /\ avail.op = "get_available_slots"
    /\ avail.duration = 45
    /\ avail.busy # << >>
    /\ Len(avail.slots) > 1

\* the slots of length d starting every 15 minutes from `current` that end
\* by end_time
RECURSIVE QuarterHourGrid(_, _, _)
QuarterHourGrid(current, end_time, d) ==
    IF current + d <= end_time
    THEN << Interval(current, current + d) >>
         \o QuarterHourGrid(current + 15, end_time, d)
    ELSE << >>

\* C20: for a date with no busy interval in the work-day window 09:00-17:00
\* and a duration d shorter than the window, the availability computation
\* returns exactly the slots starting at 09:00 + 15*k that end by 17:00
\* (29 slots for d = 60).
C20_FreeDayGivesQuarterHourGrid ==
    (/\ avail.op = "get_available_slots"
     /\ avail.status = "ok"
     /\ ~avail.query_failed
     /\ avail.busy = << >>
     /\ avail.duration < (WORK_END_HOUR - WORK_START_HOUR) * MinutesPerHour) =>
        avail.slots = QuarterHourGrid(avail.start, avail.end, avail.duration)

\* ------------------------------------------------------------------------
\* get_free_slots: the slot list (C21, C22)
\* ------------------------------------------------------------------------
\* the candidates of the 15-minute grid of a window, by their start
GridStarts(start_dt, end_dt, d) ==
    { c \in start_dt..end_dt :
        (c - start_dt) % 15 = 0 /\ c + d <= end_dt }

FreeCandidates(start_dt, end_dt, d, busy) ==
    { Interval(c, c + d) : c \in
        { g \in GridStarts(start_dt, end_dt, d) :
            \A j \in 1..Len(busy) : SlotClear(Interval(g, g + d), busy[j]) } }

\* C21: the list get_free_slots returns is strictly increasing by start and
\* holds exactly the grid candidates that overlap no busy interval, with
\* half-open intervals: a candidate touching a busy interval at an endpoint
\* is returned.
C21_FreeSlotsAreTheFreeCandidates ==
    (avail.op = "get_free_slots" /\ avail.status = "ok") =>
        /\ \A i, j \in 1..Len(avail.slots) :
               i < j => avail.slots[i].start < avail.slots[j].start
        /\ { avail.slots[i] : i \in 1..Len(avail.slots) } =
               FreeCandidates(avail.start, avail.end, avail.duration, avail.busy)

C21_Witness ==
    /\ calendar_mode = "real"
    /\ avail.op = "get_free_slots" /\ avail.status = "ok"
    /\ avail.duration = 60
    /\ avail.busy = << Interval(At(0, 10, 0), At(0, 11, 0)) >>
    /\ \E i \in 1..Len(avail.slots) :
          /\ avail.slots[i] = Interval(At(0, 9, 0), At(0, 10, 0))
          /\ avail.slots[i + 1] = Interval(At(0, 11, 0), At(0, 12, 0))

\* C22: for a duration <= 0, a duration >= the window length, or a window
\* with end <= start, an availability computation returns normally with an
\* empty slot list.
C22_DegenerateRequestGivesEmptyList ==
    (/\ avail.op # "none"
     /\ \/ avail.duration <= 0
        \/ avail.end <= avail.start
        \/ avail.duration >= avail.end - avail.start) =>
        (avail.status = "ok" /\ avail.slots = << >>)

\* ------------------------------------------------------------------------
\* Unknown stages (C23)
\* ------------------------------------------------------------------------
KnownStages ==
    {"greeting", "collecting_info", "showing_slots", "collecting_email",
     "confirming", "booking", "completed"}

\* what a turn on m gives in stage greeting with the draft `data`
GreetingTurn(data, m) ==
    LET entities == extract_entities_regex(m)
        data1 == IF DOMAIN entities # {}
                 THEN apply_extracted_entities(data, entities) ELSE data
    IN  handle_greeting("greeting", data1, m, entities,
                        get_context_suggestions("greeting", data1))

\* C23: in a stage outside the known set a turn gives the reply, the draft
\* and the stage change that the same turn gives in greeting, on the async
\* path and on the synchronous fallback (a turn that leaves greeting in
\* greeting may leave the unknown stage as it is).
C23_UnknownStageActsAsGreeting ==
    [][\A m \in Msgs : (stage \notin KnownStages /\ TurnOn(m)) =>
          LET g == GreetingTurn(current_booking_data, m)
          IN  /\ response' = g.resp
              /\ current_booking_data' = g.data
              /\ stage' = g.stage \/ (g.stage = "greeting" /\ stage' = stage)]_vars

\* ------------------------------------------------------------------------
\* Session isolation (C24)
\* ------------------------------------------------------------------------
\* C24: a process_message turn on one session leaves the stage, the draft
\* and the history of the other session as they were, whatever the two
\* sessions sent before and whatever the shared entity cache holds.
C24_TurnLeavesOtherSessionAlone ==
    [][\A id \in SessionIds :
          last_session' = id =>
              StateOf(OtherSession(id))' = StateOf(OtherSession(id))]_vars

\* both sessions have had turns, the second served from the shared cache
C24_Witness ==
    /\ last_session = "B"
    /\ messages # << >> /\ peer.messages # << >>
    /\ DOMAIN async_cache # {}
    /\ peer.stage = "showing_slots" /\ stage = "collecting_info"
    /\ Has(peer.data, "service_type") /\ ~Has(current_booking_data, "service_type")

\* ------------------------------------------------------------------------
\* Validation of the request (C25)
\* ------------------------------------------------------------------------
SessionTurnOn(id, m) ==
    \E attempts \in {<< "ok" >>} \cup FailedAttempts,
       expired \in BOOLEAN, email_sent \in NotifyOutcomes :
        SessionTurn(id, m, attempts, expired, email_sent)

\* the time and the duration a message asks for are outside 09:00-17:00 and
\* 15-240 minutes
OutOfBounds(m) ==
    /\ Get(extract_entities_regex(m), "time") = "11pm"
    /\ Get(extract_entities_regex(m), "duration") = "300 minutes"

\* C25: in the information-gathering stage a turn whose request is outside
\* the booking bounds is answered with the named validation message and
\* leaves the stage as it was.
C25_OutOfBoundsRequestIsRefused ==
    [][\A id \in SessionIds, m \in SessionMsgs :
          (/\ StateOf(id).stage = "collecting_info"
           /\ OutOfBounds(m)
           /\ SessionTurnOn(id, m)) =>
              /\ StateOf(id)'.stage = "collecting_info"
              /\ response'.message \in {"invalid_duration", "outside_hours"}]_vars

\* ------------------------------------------------------------------------
\* The draft across turns (C26)
\* ------------------------------------------------------------------------
\* C26: after a turn in collecting_info every attribute the extractor
\* returned for the message (service_type, date, time, duration) is in the
\* draft with the extracted value, and every attribute of the draft that was
\* not extracted again keeps its value.
C26_DraftAccumulates ==
    [][\A m \in Msgs : (stage = "collecting_info" /\ TurnOn(m)) =>
          LET entities == extract_entities_regex(m)
              attributes == {"service_type", "date", "time", "duration"}
          IN  /\ \A k \in attributes \cap DOMAIN entities :
                    Get(current_booking_data', k) = entities[k]
              /\ \A k \in (DOMAIN current_booking_data) \ DOMAIN entities :
                    Get(current_booking_data', k) = current_booking_data[k]]_vars

\* ------------------------------------------------------------------------
\* The TTL cache (C27)
\* ------------------------------------------------------------------------
\* the entries a get would treat as expired
ExpiredForGet(c) ==
    { k \in DOMAIN c.cache : ~(c.now - c.cache[k].timestamp < c.ttl) }

\* C27: get returns the value set while the entry is younger than the TTL;
\* once its age has reached the TTL get returns None and removes it; and
\* clear_expired removes exactly the entries get would treat as expired.
C27_TtlCacheContract ==
    [][/\ ttl_cache'.op = "get" =>
            LET k == ttl_cache'.key
            IN  IF k \in DOMAIN ttl_cache.cache /\ k \notin ExpiredForGet(ttl_cache)
                THEN /\ ttl_cache'.returned = ttl_cache.cache[k].value
                     /\ ttl_cache'.cache = ttl_cache.cache
                ELSE /\ ttl_cache'.returned = None
                     /\ k \notin DOMAIN ttl_cache'.cache
       /\ ttl_cache'.op = "clear_expired" =>
            DOMAIN ttl_cache'.cache =
                (DOMAIN ttl_cache.cache) \ ExpiredForGet(ttl_cache)]_vars

\* ------------------------------------------------------------------------
\* Booked slots and later queries (C28)
\* ------------------------------------------------------------------------
\* C28: once book_slot has answered booked or mock_booked for [start, end),
\* no later availability query over a range covering it returns a slot that
\* overlaps [start, end).
C28_BookedSlotIsNeverOfferedAgain ==
    avail.status = "ok" =>
        \A b \in avail.booked :
            (avail.start <= b.start /\ b.end <= avail.end) =>
                \A i \in 1..Len(avail.slots) : SlotClear(avail.slots[i], b)

\* C29: in every state reached from a fresh greeting session through
\* process_message, on the async path or the synchronous fallback, stage
\* confirming or completed implies that the draft holds a contact email the
\* user supplied.
C29_ConfirmingHasCollectedEmail ==
    stage \in {"confirming", "completed"} =>
        Get(current_booking_data, "user_email") \in {EmailIn(m) : m \in Msgs} \ {None}

\* a turn that ran a confirmation handler
ConfirmationTurn ==
    /\ stage = "confirming"
    /\ response'.message \in {"confirmed_email_sent", "confirmed_email_unavailable"}

\* C30: the confirmation of the confirming turn goes to the address the
\* draft got in collecting_email, and the booking data returned for the turn
\* carries that address.
C30_ConfirmationGoesToDraftEmail ==
    [][(ConfirmationTurn /\ Has(current_booking_data, "user_email")) =>
          /\ Get(response'.booking_data, "user_email") = current_booking_data["user_email"]
          /\ \A i \in (Len(outbox) + 1)..Len(outbox') :
                 outbox'[i] = current_booking_data["user_email"]]_vars

\* C31: the reply of the confirming turn says the confirmation email was
\* sent exactly when send_booking_confirmation succeeded; when it returned
\* False or raised, the reply has the email-unavailable wording.
C31_ReplyTellsWhetherEmailWentOut ==
    [][ConfirmationTurn =>
          IF Len(outbox') > Len(outbox)
          THEN response'.message = "confirmed_email_sent"
          ELSE response'.message = "confirmed_email_unavailable"]_vars

\* C32: started from the same stage, draft and history with the same
\* message, _process_message_sync and process_message_async end in the same
\* stage and the same draft, in every stage.
C32_FallbackAndAsyncPathAgree ==
    \A m \in Msgs, email_sent \in NotifyOutcomes :
        LET a == process_message_async(Current, turns + 1, m, FALSE, email_sent)
            b == process_message_sync(Current, turns + 1, m, email_sent)
        IN  a.stage = b.stage /\ a.data = b.data

StartsOf(slots) == { slots[i].start : i \in 1..Len(slots) }

\* C33: for the same date, work-day window, duration and busy intervals,
\* get_available_slots (and _get_mock_available_slots) returns the same slot
\* start times as get_free_slots: every path walks the candidate start in
\* the same 15-minute step.
C33_AllPathsGiveTheSameStarts ==
    (avail.op = "get_available_slots" /\ avail.status = "ok") =>
        StartsOf(avail.slots) =
            StartsOf(IF calendar_mode = "mock"
                     THEN WalkMock(avail.start, avail.end, avail.duration, avail.busy)
                     ELSE WalkSorted(avail.start, avail.end, avail.duration,
                                     SortByStart(avail.busy)))

\* C34: the sorted scan with early exit of CalendarService.get_free_slots
\* returns the slot list the full scan of MockCalendarService.get_free_slots
\* returns over the same busy intervals, whether they come unsorted,
\* overlapping, nested or duplicated.
C34_SortedScanEqualsFullScan ==
    (calendar_mode = "real" /\ avail.op = "get_free_slots" /\ avail.status = "ok") =>
        avail.slots = WalkMock(avail.start, avail.end, avail.duration, avail.busy)

C34_Witness ==
    /\ calendar_mode = "real"
    /\ avail.op = "get_free_slots" /\ avail.status = "ok"
    /\ avail.duration = 30
    /\ avail.busy = << Interval(At(0, 10, 0), At(0, 11, 0)),
                       Interval(At(0, 9, 30), At(0, 10, 15)),
                       Interval(At(0, 10, 15), At(0, 10, 30)) >>
    /\ Len(avail.slots) >= 2
    /\ avail.slots[1] = Interval(At(0, 9, 0), At(0, 9, 30))
    /\ avail.slots[2] = Interval(At(0, 11, 0), At(0, 11, 30))

\* greeting < collecting_info < showing_slots < collecting_email <
\* confirming < completed
StageRank(stg) ==
    CASE stg = "greeting" -> 0
      [] stg = "collecting_info" -> 1
      [] stg = "showing_slots" -> 2
      [] stg = "collecting_email" -> 3
      [] stg = "confirming" -> 4
      [] stg = "completed" -> 5

\* C35: no process_message turn moves a session to an earlier stage, and
\* completed is reached only by a turn that starts in confirming.
C35_StagesNeverGoBack ==
    [][/\ StageRank(stage') >= StageRank(stage)
       /\ (stage' = "completed" /\ stage # "completed") => stage = "confirming"]_vars

\* C36: from a fresh greeting session, with a user whose messages carry a
\* booking cue, then a service type, then an email address, and external
\* calls that return, the session reaches completed, and it has done so
\* once five turns are over.
C36_CooperativeSessionCompletes ==
    /\ <>(stage = "completed")
    /\ [](turns >= 5 => stage = "completed")

C36_Witness ==
    /\ stage = "completed"
    /\ turns = 5
    /\ Get(current_booking_data, "user_email") = "ann@site.org"
    /\ Len(messages) = 10

\* C37: every slot returned for a date starts at or after 09:00 and ends at
\* or before 17:00 of that date, whatever the positive duration asked for.
C37_SlotsLieInTheWorkDay ==
    (avail.op = "get_available_slots" /\ avail.status = "ok" /\ avail.duration > 0) =>
        \A i \in 1..Len(avail.slots) :
            /\ avail.slots[i].start >= avail.start
            /\ avail.slots[i].end <= avail.end

\* C38: in the LLM-backed agent the stage is confirming only with a draft
\* that holds a non-empty date, time and duration, and the booking call is
\* made only with such a draft.
NonEmptyIn(d, field) == Has(d, field) /\ d[field] \notin {None, "", "0"}

C38_ConfirmingDraftIsComplete ==
    (llm_stage = "confirming" \/ llm_booking_result.made) =>
        /\ NonEmptyIn(llm_booking_data, "date")
        /\ NonEmptyIn(llm_booking_data, "time")
        /\ NonEmptyIn(llm_booking_data, "duration")

C38_Witness ==
    /\ llm_stage = "completed"
    /\ llm_booking_result.made
    /\ llm_turns >= 3
    /\ llm_booking_data =
           [k \in {"date", "time", "duration"} |->
               CASE k = "date" -> "2024-06-10" [] k = "time" -> "09:05" [] OTHER -> "30"]

\* a step in which a call() gets to invoke the wrapped function
Invoked == \E c \in Callers : /\ breaker.callers[c] = "idle"
                              /\ breaker'.callers[c] = "running"

\* a step in which a call() whose function raised does its bookkeeping
FailureRecorded == \E c \in Callers : /\ breaker.callers[c] = "raised"
                                      /\ breaker'.callers[c] = "idle"

\* the last n calls of the wrapped function all returned
LastCallsReturned(calls, n) ==
    /\ Len(calls) >= n
    /\ \A i \in (Len(calls) - n + 1)..Len(calls) : calls[i] = "ok"

\* C39: while the breaker is OPEN and fewer than `timeout` seconds have
\* passed since the last failure, no call() gets to invoke the wrapped
\* function; the breaker gets back to CLOSED only after success_threshold
\* successful calls with no failure in between; a failure in HALF_OPEN
\* puts it back to OPEN.
C39_BreakerOpensAndRecovers ==
    [][/\ (/\ breaker.state = "OPEN"
           /\ breaker.now - breaker.last_failure_time < breaker.timeout) =>
              ~Invoked
       /\ (breaker.state # "CLOSED" /\ breaker'.state = "CLOSED") =>
              LastCallsReturned(breaker'.calls, breaker.success_threshold)
       /\ (breaker.state # "CLOSED" /\ FailureRecorded) =>
              breaker'.state = "OPEN"]_vars

\* a step in which a call of generate returns or raises
CallEnds ==
    /\ generation'.pc = "idle"
    /\ \/ generation.pc = "trying"
       \/ generation.pc = "idle" /\ generation'.cached = generation.cached

MakesResponse(g) == g.result \in {"response", "cached"} /\ g.response # 0

\* C40: a call of generate invokes the provider at most `retries` times and
\* ends either with the response of the first successful attempt, cached
\* only then, or with the exception of the last attempt; it never returns
\* without a response, retries = 0 included.
C40_GenerateReturnsOrRaises ==
    [][/\ CallEnds =>
             \/ generation'.result = "raised"
             \/ MakesResponse(generation')
       /\ generation.pc = "trying" => generation.attempt + 1 <= generation.retries
       /\ generation'.cached \notin {generation.cached, 0} =>
             /\ generation'.result = "response"
             /\ generation'.cached = generation'.response]_vars
====
